---- MODULE Spec2Model ----
(***************************************************************************)
(* Backtest simulation engine of trade-agent:                              *)
(* BacktestService.runBacktest (src/src/backtest/backtest.service.ts)      *)
(* replays the market data of a BacktestConfig through a strategy plugin   *)
(* and a risk plugin, keeps at most one position, appends OPEN / CLOSE     *)
(* trades to a ledger and computes the metrics of the ledger.              *)
(*                                                                         *)
(* Numbers.  Prices and sizes are integers.  Money amounts (balances,      *)
(* risk amounts, fees) of one run are held as integer multiples of         *)
(* 1 / fees.den, where config.fees = fees.num / fees.den is the flat fee   *)
(* rate; arithmetic is that of the real numbers (no rounding).  A          *)
(* quotient computed by the code is kept as a pair [num, den] with         *)
(* den >= 0, so that 0/0 (NaN) and x/0 (Infinity) stay visible.            *)
(***************************************************************************)
EXTENDS Integers, Sequences, FiniteSets, TLC

\* ------------------------------------------------------------------ bounds
\* longest data sequence of a run
MaxLen == 2

\* candle prices, and the stop-loss / take-profit levels a risk plugin returns
Prices == 1..3
Levels == {1, 3}
Sizes == {1, 2}
RiskAmounts == {0, 100}
InitialBalances == {500}
FeeRates == {[num |-> 1, den |-> 100]}
Signals == {"long", "short", "none"}
\* the caller's timestamps: increasing or decreasing along the sequence
TimeOrders == {"ascending", "descending"}

\* RiskResult: the fields the engine reads
RiskResults ==
  [positionSize : Sizes, stopLoss : Levels, takeProfit : Levels, riskAmount : RiskAmounts]

\* MarketData: the fields the engine reads
MakeData(ps, order) ==
  [k \in 1..Len(ps) |->
     [price |-> ps[k],
      timestamp |-> IF order = "ascending" THEN k ELSE Len(ps) + 1 - k]]

DataSeqs ==
  {MakeData(ps, o) : ps \in UNION {[1..n -> Prices] : n \in 0..MaxLen}, o \in TimeOrders}

\* the configured parameter objects; the entryPrice configured is a price no
\* data point has
StrategyParamSets == {[stopLossPercent |-> 1]}
ConfiguredRiskParams == {[riskPercent |-> 2, entryPrice |-> 99, stopLossPrice |-> 1]}

\* BacktestConfig: the fields runBacktest destructures and uses
Configs ==
  [initialBalance : InitialBalances, data : DataSeqs, fees : FeeRates,
   strategyParams : StrategyParamSets, riskParams : ConfiguredRiskParams]

\* ------------------------------------------------------------ JS numbers
\* a / b as JavaScript computes it on numbers: 0/0 is NaN, x/0 is +-Infinity
Ratio(a, b) == IF b < 0 THEN [num |-> -a, den |-> -b] ELSE [num |-> a, den |-> b]
IsNaN(r) == r.den = 0 /\ r.num = 0
IsFinite(r) == r.den > 0
\* r is the finite number n
RatIs(r, n) == r.den > 0 /\ r.num = n * r.den
\* a > b, FALSE when either is NaN
RatGt(a, b) == ~IsNaN(a) /\ ~IsNaN(b) /\ a.num * b.den > b.num * a.den
\* Math.max(a, b): NaN if either is NaN
MathMax(a, b) ==
  IF IsNaN(a) THEN a ELSE IF IsNaN(b) THEN b ELSE IF RatGt(b, a) THEN b ELSE a

\* x ?? d for an optional field held as <<>> (undefined) or <<v>>
Coalesce(x, d) == IF x = <<>> THEN d ELSE x[1]

\* --------------------------------------------------------------- helpers
\* stop-loss and take-profit taken from each other's field of the RiskResult
openPosition_swapLevels(sig, riskResult, candle) ==
  [type |-> sig,
   entryPrice |-> candle.price,
   size |-> riskResult.positionSize,
   stopLoss |-> riskResult.takeProfit,
   takeProfit |-> riskResult.stopLoss,
   entryTime |-> candle.timestamp,
   entryBalance |-> riskResult.riskAmount,
   status |-> "OPEN",
   exitPrice |-> <<>>,
   exitTime |-> <<>>,
   exitBalance |-> <<>>,
   pnl |-> <<>>]

openPosition(sig, riskResult, candle) ==
  [type |-> sig,
   entryPrice |-> candle.price,
   size |-> riskResult.positionSize,
   stopLoss |-> riskResult.stopLoss,
   takeProfit |-> riskResult.takeProfit,
   entryTime |-> candle.timestamp,
   entryBalance |-> riskResult.riskAmount,
   status |-> "OPEN",
   exitPrice |-> <<>>,
   exitTime |-> <<>>,
   exitBalance |-> <<>>,
   pnl |-> <<>>]

\* strict comparisons instead of <= and >=
shouldClosePosition_strict(p, candle) ==
  LET currentPrice == candle.price IN
  IF p.type = "long"
    THEN currentPrice < p.stopLoss \/ currentPrice > p.takeProfit
    ELSE currentPrice > p.stopLoss \/ currentPrice < p.takeProfit

shouldClosePosition(p, candle) ==
  LET currentPrice == candle.price IN
  IF p.type = "long"
    THEN currentPrice <= p.stopLoss \/ currentPrice >= p.takeProfit
    ELSE currentPrice >= p.stopLoss \/ currentPrice <= p.takeProfit

\* the fee charged on the exit leg only
closePosition_exitFee(p, candle, feeRate, currentBalance) ==
  LET exitPrice == candle.price
      fee == feeRate.num * p.size * exitPrice
      pnl == IF p.type = "long"
               THEN (exitPrice - p.entryPrice) * p.size
               ELSE (p.entryPrice - exitPrice) * p.size
  IN [newBalance |-> currentBalance + pnl * feeRate.den - fee]

closePosition(p, candle, feeRate, currentBalance) ==
  LET exitPrice == candle.price
      fee == feeRate.num * p.size * (p.entryPrice + exitPrice)
      pnl == IF p.type = "long"
               THEN (exitPrice - p.entryPrice) * p.size
               ELSE (p.entryPrice - exitPrice) * p.size
  IN [newBalance |-> currentBalance + pnl * feeRate.den - fee]

\* the exit also cuts the size recorded to one unit
updateAndClosePosition_partial(p, candle, bal) ==
  [p EXCEPT !.status = "CLOSED",
            !.size = 1,
            !.exitPrice = <<candle.price>>,
            !.exitTime = <<candle.timestamp>>,
            !.exitBalance = <<bal>>]

updateAndClosePosition(p, candle, bal) ==
  [p EXCEPT !.status = "CLOSED",
            !.exitPrice = <<candle.price>>,
            !.exitTime = <<candle.timestamp>>,
            !.exitBalance = <<bal>>]

createTradeRecord(p, action) ==
  [type |-> p.type,
   action |-> action,
   price |-> IF action = "OPEN" THEN p.entryPrice ELSE Coalesce(p.exitPrice, p.entryPrice),
   size |-> p.size,
   timestamp |-> IF action = "OPEN" THEN p.entryTime ELSE Coalesce(p.exitTime, p.entryTime),
   balance |-> IF action = "OPEN" THEN p.entryBalance ELSE Coalesce(p.exitBalance, p.entryBalance),
   pnl |-> IF action = "CLOSE" THEN Coalesce(p.pnl, 0) ELSE 0]

\* the peak stays at the first recorded balance instead of the running maximum
RECURSIVE drawdownWalk_firstPeak(_, _, _)
drawdownWalk_firstPeak(tr, k, acc) ==
  IF k > Len(tr) THEN acc
  ELSE LET b == tr[k].balance
           peak == IF ~acc.hasPeak THEN b ELSE acc.peak
           drawdown == Ratio((peak - b) * 100, peak)
       IN drawdownWalk_firstPeak(tr, k + 1,
            [hasPeak |-> TRUE, peak |-> peak, mdd |-> MathMax(acc.mdd, drawdown)])

\* trades.forEach body of calculateMaxDrawdown, applied to trades[k..]
\* acc = [hasPeak, peak, mdd]; hasPeak = FALSE stands for peak = -Infinity
RECURSIVE drawdownWalk(_, _, _)
drawdownWalk(tr, k, acc) ==
  IF k > Len(tr) THEN acc
  ELSE LET b == tr[k].balance
           peak == IF ~acc.hasPeak \/ b > acc.peak THEN b ELSE acc.peak
           drawdown == Ratio((peak - b) * 100, peak)
       IN drawdownWalk(tr, k + 1,
            [hasPeak |-> TRUE, peak |-> peak, mdd |-> MathMax(acc.mdd, drawdown)])

calculateMaxDrawdown(tr) ==
  drawdownWalk(tr, 1, [hasPeak |-> FALSE, peak |-> 0, mdd |-> Ratio(0, 1)]).mdd

CountWinning(tr) == Cardinality({k \in 1..Len(tr) : tr[k].action = "CLOSE" /\ tr[k].pnl > 0})

\* totalTrades taken as the ledger length
calculateBacktestResult_length(tr, initialBalance, finalBalance) ==
  LET totalReturn == Ratio((finalBalance - initialBalance) * 100, initialBalance)
      totalTrades == Ratio(Len(tr), 1)
      winningTrades == CountWinning(tr)
      winRate == Ratio(winningTrades * totalTrades.den * 100, totalTrades.num)
  IN [trades |-> tr,
      totalTrades |-> totalTrades,
      winningTrades |-> winningTrades,
      winRate |-> winRate,
      initialBalance |-> initialBalance,
      finalBalance |-> finalBalance,
      totalReturn |-> totalReturn,
      maxDrawdown |-> calculateMaxDrawdown(tr)]

calculateBacktestResult(tr, initialBalance, finalBalance) ==
  LET totalReturn == Ratio((finalBalance - initialBalance) * 100, initialBalance)
      totalTrades == Ratio(Len(tr), 2)
      winningTrades == CountWinning(tr)
      winRate == Ratio(winningTrades * totalTrades.den * 100, totalTrades.num)
  IN [trades |-> tr,
      totalTrades |-> totalTrades,
      winningTrades |-> winningTrades,
      winRate |-> winRate,
      initialBalance |-> initialBalance,
      finalBalance |-> finalBalance,
      totalReturn |-> totalReturn,
      maxDrawdown |-> calculateMaxDrawdown(tr)]

\* ----------------------------------------------------------------- state
VARIABLES
  config,         \* the BacktestConfig of the run
  pc,             \* position of the run inside runBacktest
  i,              \* number of data points the for-loop has taken
  signal,         \* const signal of the current iteration
  riskResult,     \* const riskResult of the current iteration, <<>> or <<r>>
  balance,        \* let balance
  trades,         \* const trades: the ledger
  position,       \* let position: <<>> is null, <<p>> a Position object
  result,         \* const result, <<>> until computed
  stored,         \* documents created in the backtest collection
  returned,       \* value the promise resolved with, <<>> or <<result>>
  strategyCalls,  \* log of executeStrategy calls
  riskCalls,      \* log of executeRiskStrategy calls
  other,          \* a second runBacktest call suspended at an await, <<>> if none
  memo,           \* what the plugins answered to each input, for plugins
                  \* that are functions of their input
  loadedStrategies,  \* StrategyLoader.loadedStrategies: the names cached
  loadedRisks,       \* RiskLoader.loadedRisks: the names cached
  storeRecords,   \* strategyModel / riskModel: the records of the plugin store
  calls,          \* the loader calls made so far, finished or at an await
  strategies      \* the registry of an eager loader (strategies / riskRules)

vars == <<config, pc, i, signal, riskResult, balance, trades, position, result,
          stored, returned, strategyCalls, riskCalls, other, memo,
          loadedStrategies, loadedRisks, storeRecords, calls, strategies>>

\* what a loader studied on its own works on
loaderStore == <<storeRecords, calls, strategies>>

\* the caches of the two lazy loaders, and the state of a loader studied on
\* its own
loaderState == <<loadedStrategies, loadedRisks, loaderStore>>

candle == config.data[i]

Init ==
  /\ config \in Configs
  /\ pc = "idle"
  /\ i = 0
  /\ signal = "none"
  /\ riskResult = <<>>
  /\ balance = 0
  /\ trades = <<>>
  /\ position = <<>>
  /\ result = <<>>
  /\ stored = <<>>
  /\ returned = <<>>
  /\ strategyCalls = <<>>
  /\ riskCalls = <<>>
  /\ other = <<>>
  /\ memo = {}
  /\ loadedStrategies = {}
  /\ loadedRisks = {}
  /\ storeRecords = <<>>
  /\ calls = <<>>
  /\ strategies = {}

\* the running balance kept from the previous call instead of being set from
\* the config
Start_keepBalance ==
  /\ pc = "idle"
  /\ balance' = IF stored = <<>> THEN config.initialBalance ELSE balance
  /\ trades' = <<>>
  /\ position' = <<>>
  /\ pc' = "loop"
  /\ UNCHANGED <<config, i, signal, riskResult, result, stored, returned,
                 strategyCalls, riskCalls, other, memo, loaderState>>

\* lines 91-94: destructure the config, initialise the locals
Start ==
  /\ pc = "idle"
  /\ balance' = config.initialBalance
  /\ trades' = <<>>
  /\ position' = <<>>
  /\ pc' = "loop"
  /\ UNCHANGED <<config, i, signal, riskResult, result, stored, returned,
                 strategyCalls, riskCalls, other, memo, loaderState>>

\* line 96: the for-of loop takes the next data point, or ends
LoopNext ==
  /\ pc = "loop"
  /\ i < Len(config.data)
  /\ i' = i + 1
  /\ signal' = "none"
  /\ riskResult' = <<>>
  /\ pc' = "strategy"
  /\ UNCHANGED <<config, balance, trades, position, result, stored, returned,
                 strategyCalls, riskCalls, other, memo, loaderState>>

LoopEnd ==
  /\ pc = "loop"
  /\ i = Len(config.data)
  /\ pc' = "liquidate"
  /\ UNCHANGED <<config, i, signal, riskResult, balance, trades, position, result,
                 stored, returned, strategyCalls, riskCalls, other, memo, loaderState>>

\* line 97: await executeStrategy(strategyName, candle, strategyParams)
\* what the call does to the run, whatever the loader does to its cache
StrategyAnswers ==
  /\ pc = "strategy"
  /\ \E s \in Signals :
       /\ signal' = s
       /\ strategyCalls' = Append(strategyCalls,
            [index |-> i, positionOpen |-> position # <<>>, signal |-> s])
  /\ pc' = "decide"
  /\ UNCHANGED <<config, i, riskResult, balance, trades, position, result, stored,
                 returned, riskCalls, other, memo>>

StrategyReturns == StrategyAnswers /\ UNCHANGED loaderState

\* the error of the strategy call caught and the loop carried on without a
\* signal
StrategyThrows_swallow ==
  /\ pc = "strategy"
  /\ strategyCalls' = Append(strategyCalls,
       [index |-> i, positionOpen |-> position # <<>>, signal |-> "error"])
  /\ signal' = "none"
  /\ pc' = "decide"
  /\ UNCHANGED <<config, i, riskResult, balance, trades, position, result,
                 stored, returned, riskCalls, other, memo, loaderState>>

StrategyThrows ==
  /\ pc = "strategy"
  /\ strategyCalls' = Append(strategyCalls,
       [index |-> i, positionOpen |-> position # <<>>, signal |-> "error"])
  /\ pc' = "failed"
  /\ UNCHANGED <<config, i, signal, riskResult, balance, trades, position, result,
                 stored, returned, riskCalls, other, memo, loaderState>>

\* line 99 testing for long only
wantsOpen_longOnly == signal = "long" /\ position = <<>>

\* line 99 without the !position conjunct
wantsOpen_anyPosition == signal = "long" \/ signal = "short"

\* line 99: the condition of the open branch
wantsOpen == (signal = "long" \/ signal = "short") /\ position = <<>>

\* lines 100-103: await executeRiskStrategy(riskRuleName, signal, balance, {...})
\* the configured riskParams passed on as they are
riskCallParams_configured == config.riskParams

\* lines 100-103: { ...riskParams, entryPrice: candle.price }
riskCallParams == [config.riskParams EXCEPT !.entryPrice = candle.price]

\* the entryPrice assigned into the configured object itself
configuredAfterCall_inPlace == riskCallParams

\* lines 100-103: the spread builds a new object, so the configured riskParams
\* are after the call what they were before it
configuredAfterCall == config.riskParams

\* what the call does to the run, whatever the loader does to its cache
RiskAnswers ==
  /\ pc = "decide"
  /\ wantsOpen
  /\ \E r \in RiskResults : riskResult' = <<r>>
  /\ riskCalls' = Append(riskCalls,
       [index |-> i, signal |-> signal, balance |-> balance,
        entryPrice |-> riskCallParams.entryPrice,
        threw |-> FALSE])
  /\ config' = [config EXCEPT !.riskParams = configuredAfterCall]
  /\ pc' = "open"
  /\ UNCHANGED <<i, signal, balance, trades, position, result, stored,
                 returned, strategyCalls, other, memo>>

RiskReturns == RiskAnswers /\ UNCHANGED loaderState

RiskThrows ==
  /\ pc = "decide"
  /\ wantsOpen
  /\ riskCalls' = Append(riskCalls,
       [index |-> i, signal |-> signal, balance |-> balance,
        entryPrice |-> riskCallParams.entryPrice,
        threw |-> TRUE])
  /\ config' = [config EXCEPT !.riskParams = configuredAfterCall]
  /\ pc' = "failed"
  /\ UNCHANGED <<i, signal, riskResult, balance, trades, position, result,
                 stored, returned, strategyCalls, other, memo, loaderState>>

\* line 99, condition false: fall through to line 109
SkipOpen ==
  /\ pc = "decide"
  /\ ~wantsOpen
  /\ pc' = "check"
  /\ UNCHANGED <<config, i, signal, riskResult, balance, trades, position, result,
                 stored, returned, strategyCalls, riskCalls, other, memo, loaderState>>

\* the entry fee taken from the balance when the position is opened
OpenPosition_chargeFee ==
  /\ pc = "open"
  /\ position' = <<openPosition(signal, riskResult[1], candle)>>
  /\ balance' = balance - config.fees.num * riskResult[1].positionSize * candle.price
  /\ pc' = "pushOpen"
  /\ UNCHANGED <<config, i, signal, riskResult, trades, result, stored,
                 returned, strategyCalls, riskCalls, other, memo, loaderState>>

\* line 105
OpenPosition ==
  /\ pc = "open"
  /\ position' = <<openPosition(signal, riskResult[1], candle)>>
  /\ pc' = "pushOpen"
  /\ UNCHANGED <<config, i, signal, riskResult, balance, trades, result, stored,
                 returned, strategyCalls, riskCalls, other, memo, loaderState>>

\* line 106
PushOpen ==
  /\ pc = "pushOpen"
  /\ trades' = Append(trades, createTradeRecord(position[1], "OPEN"))
  /\ pc' = "check"
  /\ UNCHANGED <<config, i, signal, riskResult, balance, position, result, stored,
                 returned, strategyCalls, riskCalls, other, memo, loaderState>>

\* line 109: the condition of the close branch
mustClose == position # <<>> /\ shouldClosePosition(position[1], candle)

CheckClose ==
  /\ pc = "check"
  /\ pc' = IF mustClose THEN "close" ELSE "loop"
  /\ UNCHANGED <<config, i, signal, riskResult, balance, trades, position, result,
                 stored, returned, strategyCalls, riskCalls, other, memo, loaderState>>

\* lines 110-111
CloseBalance ==
  /\ pc = "close"
  /\ balance' = closePosition(position[1], candle, config.fees, balance).newBalance
  /\ pc' = "update"
  /\ UNCHANGED <<config, i, signal, riskResult, trades, position, result, stored,
                 returned, strategyCalls, riskCalls, other, memo, loaderState>>

\* line 112
CloseUpdate ==
  /\ pc = "update"
  /\ position' = <<updateAndClosePosition(position[1], candle, balance)>>
  /\ pc' = "pushClose"
  /\ UNCHANGED <<config, i, signal, riskResult, balance, trades, result, stored,
                 returned, strategyCalls, riskCalls, other, memo, loaderState>>

\* the CLOSE record written over the last record of the ledger
PushClose_overwrite ==
  /\ pc = "pushClose"
  /\ trades' = [trades EXCEPT ![Len(trades)] = createTradeRecord(position[1], "CLOSE")]
  /\ pc' = "clear"
  /\ UNCHANGED <<config, i, signal, riskResult, balance, position, result, stored,
                 returned, strategyCalls, riskCalls, other, memo, loaderState>>

\* line 113
PushClose ==
  /\ pc = "pushClose"
  /\ trades' = Append(trades, createTradeRecord(position[1], "CLOSE"))
  /\ pc' = "clear"
  /\ UNCHANGED <<config, i, signal, riskResult, balance, position, result, stored,
                 returned, strategyCalls, riskCalls, other, memo, loaderState>>

\* line 114 left out: the closed position object stays in the variable
ClearPosition_keep ==
  /\ pc = "clear"
  /\ pc' = "loop"
  /\ UNCHANGED <<config, i, signal, riskResult, balance, trades, position, result,
                 stored, returned, strategyCalls, riskCalls, other, memo, loaderState>>

\* the open branch entered again at the data point of the close
ClearPosition_reenter ==
  /\ pc = "clear"
  /\ position' = <<>>
  /\ pc' = "decide"
  /\ UNCHANGED <<config, i, signal, riskResult, balance, trades, result, stored,
                 returned, strategyCalls, riskCalls, other, memo, loaderState>>

\* line 114
ClearPosition ==
  /\ pc = "clear"
  /\ position' = <<>>
  /\ pc' = "loop"
  /\ UNCHANGED <<config, i, signal, riskResult, balance, trades, result, stored,
                 returned, strategyCalls, riskCalls, other, memo, loaderState>>

\* line 120: data[data.length - 1]
lastCandle == config.data[Len(config.data)]

\* lines 118-125 left out: no forced liquidation after the loop
Liquidate_none ==
  /\ pc = "liquidate"
  /\ pc' = "calc"
  /\ UNCHANGED <<config, i, signal, riskResult, balance, trades, position, result,
                 stored, returned, strategyCalls, riskCalls, other, memo, loaderState>>

\* line 119
Liquidate ==
  /\ pc = "liquidate"
  /\ pc' = IF position # <<>> THEN "forceClose" ELSE "calc"
  /\ UNCHANGED <<config, i, signal, riskResult, balance, trades, position, result,
                 stored, returned, strategyCalls, riskCalls, other, memo, loaderState>>

\* lines 121-122 left out: the forced close does not touch the balance
ForceCloseBalance_skip ==
  /\ pc = "forceClose"
  /\ pc' = "forceUpdate"
  /\ UNCHANGED <<config, i, signal, riskResult, balance, trades, position, result,
                 stored, returned, strategyCalls, riskCalls, other, memo, loaderState>>

\* lines 120-122
ForceCloseBalance ==
  /\ pc = "forceClose"
  /\ balance' = closePosition(position[1], lastCandle, config.fees, balance).newBalance
  /\ pc' = "forceUpdate"
  /\ UNCHANGED <<config, i, signal, riskResult, trades, position, result, stored,
                 returned, strategyCalls, riskCalls, other, memo, loaderState>>

\* line 123
ForceCloseUpdate ==
  /\ pc = "forceUpdate"
  /\ position' = <<updateAndClosePosition(position[1], lastCandle, balance)>>
  /\ pc' = "forcePush"
  /\ UNCHANGED <<config, i, signal, riskResult, balance, trades, result, stored,
                 returned, strategyCalls, riskCalls, other, memo, loaderState>>

\* line 124
ForcePushClose ==
  /\ pc = "forcePush"
  /\ trades' = Append(trades, createTradeRecord(position[1], "CLOSE"))
  /\ pc' = "calc"
  /\ UNCHANGED <<config, i, signal, riskResult, balance, position, result, stored,
                 returned, strategyCalls, riskCalls, other, memo, loaderState>>

\* line 127
Calculate ==
  /\ pc = "calc"
  /\ result' = <<calculateBacktestResult(trades, config.initialBalance, balance)>>
  /\ pc' = "save"
  /\ UNCHANGED <<config, i, signal, riskResult, balance, trades, position, stored,
                 returned, strategyCalls, riskCalls, other, memo, loaderState>>

\* line 128 and saveBacktestResult: backtestModel.create(result) succeeds
SaveOk ==
  /\ pc = "save"
  /\ stored' = Append(stored, result[1])
  /\ pc' = "return"
  /\ UNCHANGED <<config, i, signal, riskResult, balance, trades, position, result,
                 returned, strategyCalls, riskCalls, other, memo, loaderState>>

\* the error of create logged and not rethrown: the run goes on to return
SaveThrows_swallow ==
  /\ pc = "save"
  /\ pc' = "return"
  /\ UNCHANGED <<config, i, signal, riskResult, balance, trades, position, result,
                 stored, returned, strategyCalls, riskCalls, other, memo, loaderState>>

\* saveBacktestResult: create rejects, the error is logged and rethrown
SaveThrows ==
  /\ pc = "save"
  /\ pc' = "failed"
  /\ UNCHANGED <<config, i, signal, riskResult, balance, trades, position, result,
                 stored, returned, strategyCalls, riskCalls, other, memo, loaderState>>

\* line 130
Return ==
  /\ pc = "return"
  /\ returned' = result
  /\ pc' = "done"
  /\ UNCHANGED <<config, i, signal, riskResult, balance, trades, position, result,
                 stored, strategyCalls, riskCalls, other, memo, loaderState>>

Next ==
  \/ Start
  \/ LoopNext
  \/ LoopEnd
  \/ StrategyReturns
  \/ StrategyThrows
  \/ RiskReturns
  \/ RiskThrows
  \/ SkipOpen
  \/ OpenPosition
  \/ PushOpen
  \/ CheckClose
  \/ CloseBalance
  \/ CloseUpdate
  \/ PushClose
  \/ ClearPosition
  \/ Liquidate
  \/ ForceCloseBalance
  \/ ForceCloseUpdate
  \/ ForcePushClose
  \/ Calculate
  \/ SaveOk
  \/ SaveThrows
  \/ Return

Spec == Init /\ [][Next]_vars

\* ------------------------------------------------ reference definitions
OpenCount(tr) == Cardinality({k \in 1..Len(tr) : tr[k].action = "OPEN"})
CloseCount(tr) == Cardinality({k \in 1..Len(tr) : tr[k].action = "CLOSE"})

\* realized profit or loss of a round trip, in price units
RefPnl(type, entry, exit, size) ==
  IF type = "long" THEN (exit - entry) * size ELSE (entry - exit) * size

\* net balance change of a round trip, in units of 1 / fee.den
RefDelta(type, entry, exit, size, fee) ==
  RefPnl(type, entry, exit, size) * fee.den - fee.num * size * (entry + exit)

\* the close trigger of the specification
RefTrigger(p, price) ==
  \/ p.type = "long" /\ (price <= p.stopLoss \/ price >= p.takeProfit)
  \/ p.type = "short" /\ (price >= p.stopLoss \/ price <= p.takeProfit)

\* the balance the run had before the round trip tr[n-1], tr[n] was closed
BalanceBefore(tr, n) == IF n = 2 THEN config.initialBalance ELSE tr[n - 2].balance

\* the position variable holds a Position the forced liquidation closed
forced ==
  /\ pc \in {"calc", "save", "return", "done"}
  /\ position # <<>>

\* ------------------------------------------------------------------- C1
\* C1: in every result runBacktest computes, the ledger has even length,
\* alternates OPEN, CLOSE, OPEN, CLOSE, ... starting with OPEN, and no
\* position is open (the position variable is null or holds a CLOSED one).
C1_LedgerPaired ==
  result # <<>> =>
    LET tr == result[1].trades IN
    /\ Len(tr) % 2 = 0
    /\ \A k \in 1..Len(tr) : tr[k].action = (IF k % 2 = 1 THEN "OPEN" ELSE "CLOSE")
    /\ OpenCount(tr) = CloseCount(tr)
    /\ position # <<>> => position[1].status = "CLOSED"

\* a run returned a ledger of two round trips
C1_Witness == returned # <<>> /\ Len(returned[1].trades) = 4

\* ------------------------------------------------------------------- C2
\* C2 as stated: at every point of the replay #OPEN - #CLOSE is 0 or 1, and
\* it is 1 exactly when the position variable is non-null.
C2_ExactlyWhenNonNull ==
  LET d == OpenCount(trades) - CloseCount(trades) IN
  /\ d \in {0, 1}
  /\ d = 1 <=> position # <<>>

\* C2 amended: at every point #OPEN - #CLOSE is 0 or 1; when it is 1 the
\* position variable is non-null; at the start of every loop iteration it is
\* 1 exactly when the variable is non-null; the variable is non-null with a
\* difference of 0 only between lines 105 and 106 (position created, OPEN
\* not yet appended) or while it holds a CLOSED position (lines 113-114 and
\* after forced liquidation).
C2_AtMostOnePosition ==
  LET d == OpenCount(trades) - CloseCount(trades) IN
  /\ d \in {0, 1}
  /\ d = 1 => position # <<>>
  /\ pc \in {"loop", "strategy", "decide"} => (d = 1 <=> position # <<>>)
  /\ (position # <<>> /\ d = 0) => (pc = "pushOpen" \/ position[1].status = "CLOSED")

\* a position is open at the start of an iteration
C2_Witness ==
  /\ pc = "strategy"
  /\ position # <<>>
  /\ OpenCount(trades) - CloseCount(trades) = 1

\* ------------------------------------------------------------------- C3
\* C3: after a forced liquidation the ledger ends with exactly one CLOSE
\* following the pending OPEN, at the last data point's price and timestamp,
\* and the balance is the balance before it plus PnL minus fee; a one-point
\* run that was force-closed has exactly one OPEN and one CLOSE at that
\* point's price.
C3_ForcedLiquidation ==
  forced =>
    LET n == Len(trades)
        p == position[1]
        last == config.data[Len(config.data)]
    IN /\ n >= 2
       /\ trades[n].action = "CLOSE"
       /\ trades[n - 1].action = "OPEN"
       /\ CloseCount(trades) = OpenCount(trades)
       /\ trades[n].price = last.price
       /\ trades[n].timestamp = last.timestamp
       /\ balance = BalanceBefore(trades, n)
                      + RefDelta(p.type, p.entryPrice, last.price, p.size, config.fees)
       /\ trades[n].balance = balance
       /\ Len(config.data) = 1 =>
            /\ n = 2
            /\ trades[1].price = config.data[1].price
            /\ trades[2].price = config.data[1].price

\* a one-point run whose long position hit neither stop nor target returned
C3_Witness ==
  /\ pc = "done"
  /\ position # <<>>
  /\ Len(config.data) = 1
  /\ position[1].type = "long"
  /\ ~RefTrigger(position[1], config.data[1].price)

C5_CloseTrigger ==
  [][/\ (pc = "check" /\ position # <<>>) =>
          IF RefTrigger(position[1], config.data[i].price)
            THEN pc' = "close"
            ELSE pc' = "loop" /\ UNCHANGED <<position, trades, balance>>
     /\ pc = "close" => pc' = "update" /\ trades' = trades
     /\ pc = "update" => pc' = "pushClose" /\ trades' = trades
     /\ pc = "pushClose" =>
          /\ Len(trades') = Len(trades) + 1
          /\ trades'[Len(trades')].action = "CLOSE"
     /\ (pc \notin {"pushClose", "forcePush"}) => CloseCount(trades') = CloseCount(trades)
    ]_vars

\* a position opened at an earlier data point is closed by the trigger
C5_Witness ==
  /\ pc = "close"
  /\ position # <<>>
  /\ position[1].entryTime # config.data[i].timestamp

\* ------------------------------------------------------------------- C6
\* C6: a close at exit price x changes the balance by PnL - fee with
\* PnL = (x - entry) * size (long) or (entry - x) * size (short) and
\* fee = feeRate * size * (entry + x); long 100 -> 110, size 1, feeRate
\* 0.001 gives a balance change of 9.79 (9790 thousandths).
C6_CloseAccounting ==
  [][/\ pc = "close" =>
          balance' = balance + RefDelta(position[1].type, position[1].entryPrice,
                                        config.data[i].price, position[1].size, config.fees)
     /\ pc = "forceClose" =>
          balance' = balance + RefDelta(position[1].type, position[1].entryPrice,
                                        config.data[Len(config.data)].price,
                                        position[1].size, config.fees)
     /\ closePosition([type |-> "long", entryPrice |-> 100, size |-> 1],
                      [price |-> 110], [num |-> 1, den |-> 1000], 0).newBalance = 9790
    ]_vars

\* a close changed the balance
C6_Witness ==
  /\ pc = "update"
  /\ balance # config.initialBalance

\* ------------------------------------------------------------------- C7
\* C7: every CLOSE trade of the returned ledger carries the realized PnL of
\* the position it closes, and every OPEN trade carries PnL 0.
C7_TradePnl ==
  returned # <<>> =>
    LET tr == returned[1].trades IN
    \A k \in 1..Len(tr) :
      IF tr[k].action = "OPEN"
        THEN tr[k].pnl = 0
        ELSE tr[k].pnl = RefPnl(tr[k].type, tr[k - 1].price, tr[k].price, tr[k].size)

\* ------------------------------------------------------------------- C8
\* C8: in every result totalTrades equals the number of CLOSE events of the
\* ledger.
C8_TotalTrades ==
  result # <<>> =>
    RatIs(result[1].totalTrades, CloseCount(result[1].trades))

\* a result with two closed round trips
C8_Witness ==
  /\ result # <<>>
  /\ CloseCount(result[1].trades) = 2
  /\ RatIs(result[1].totalTrades, 2)

\* ------------------------------------------------------------------- C9
\* number of round trips of the ledger closed with a realized PnL > 0
RefWinning(tr) ==
  Cardinality({k \in 2..Len(tr) :
     /\ tr[k].action = "CLOSE"
     /\ RefPnl(tr[k].type, tr[k - 1].price, tr[k].price, tr[k].size) > 0})

\* C9: in every returned result winningTrades is the number of closed
\* positions whose realized PnL is > 0.
C9_WinningTrades ==
  returned # <<>> => returned[1].winningTrades = RefWinning(returned[1].trades)

\* ------------------------------------------------------------------ C10
\* C10: if the strategy never emitted long or short over the whole (non-empty)
\* data sequence, the result has an empty ledger, totalTrades = 0, winRate = 0
\* (a number) and finalBalance = initialBalance.
C10_ZeroTrades ==
  (/\ returned # <<>>
   /\ Len(config.data) >= 1
   /\ \A k \in 1..Len(strategyCalls) : strategyCalls[k].signal = "none") =>
    /\ returned[1].trades = <<>>
    /\ RatIs(returned[1].totalTrades, 0)
    /\ RatIs(returned[1].winRate, 0)
    /\ returned[1].finalBalance = returned[1].initialBalance

\* ------------------------------------------------------------------ C11
\* C11: in every returned result of a run over a non-empty data sequence
\* winRate is a number in [0, 100].
C11_WinRateRange ==
  (returned # <<>> /\ Len(config.data) >= 1) =>
    /\ IsFinite(returned[1].winRate)
    /\ returned[1].winRate.num >= 0
    /\ returned[1].winRate.num <= 100 * returned[1].winRate.den

\* ------------------------------------------------------------------ C12
\* C12: in every returned result of a run over a non-empty data sequence
\* maxDrawdown is a defined number >= 0.
C12_MaxDrawdownDefined ==
  (returned # <<>> /\ Len(config.data) >= 1) =>
    /\ IsFinite(returned[1].maxDrawdown)
    /\ returned[1].maxDrawdown.num >= 0

\* ------------------------------------------------------------------ C13
\* calculateMaxDrawdown on its own: ledgers of balance-at-event values,
\* negative and zero ones included
MaxLedger == 3
EventBalances == {-100, 0, 50, 100, 200}
Ledgers == UNION {[1..n -> [balance : EventBalances]] : n \in 0..MaxLedger}

MddInit ==
  /\ pc = "ledger"
  /\ trades \in Ledgers
  /\ config = <<>>
  /\ i = 0
  /\ signal = "none"
  /\ riskResult = <<>>
  /\ balance = 0
  /\ position = <<>>
  /\ result = <<>>
  /\ stored = <<>>
  /\ returned = <<>>
  /\ strategyCalls = <<>>
  /\ riskCalls = <<>>
  /\ other = <<>>
  /\ memo = {}
  /\ loadedStrategies = {}
  /\ loadedRisks = {}
  /\ storeRecords = <<>>
  /\ calls = <<>>
  /\ strategies = {}

MaxDrawdownOf ==
  /\ pc = "ledger"
  /\ result' = <<[trades |-> trades, maxDrawdown |-> calculateMaxDrawdown(trades)]>>
  /\ pc' = "drawdown"
  /\ UNCHANGED <<config, i, signal, riskResult, balance, trades, position, stored,
                 returned, strategyCalls, riskCalls, other, memo, loaderState>>

MddNext == MaxDrawdownOf

MddSpec == MddInit /\ [][MddNext]_vars

\* a = b as numbers (both finite)
RatEq(a, b) == IsFinite(a) /\ IsFinite(b) /\ a.num * b.den = b.num * a.den

\* the running maximum of the balances of tr[1..k]
RefPeak(tr, k) ==
  CHOOSE m \in {tr[j].balance : j \in 1..k} : \A j \in 1..k : tr[j].balance <= m

\* (peak - balance) / peak * 100 at event k
RefDrawdown(tr, k) == Ratio((RefPeak(tr, k) - tr[k].balance) * 100, RefPeak(tr, k))

\* the largest of the drawdowns and 0
RefMaxDrawdown(tr) ==
  LET vals == {Ratio(0, 1)} \cup {RefDrawdown(tr, k) : k \in 1..Len(tr)}
  IN CHOOSE v \in vals : \A w \in vals : ~RatGt(w, v)

pluginRaised ==
  \/ \E k \in 1..Len(strategyCalls) : strategyCalls[k].signal = "error"
  \/ \E k \in 1..Len(riskCalls) : riskCalls[k].threw

\* the run ended at the raising call: that call is the last one made, it was
\* made at the current data point, and nothing was calculated, saved or
\* returned
abortedAtRaise ==
  /\ pc = "failed"
  /\ result = <<>> /\ stored = <<>> /\ returned = <<>>
  /\ Len(strategyCalls) = i
  /\ \A k \in 1..Len(strategyCalls) :
       strategyCalls[k].signal = "error" =>
         (k = Len(strategyCalls) /\ \A j \in 1..Len(riskCalls) : ~riskCalls[j].threw)
  /\ \A k \in 1..Len(riskCalls) :
       riskCalls[k].threw =>
         (k = Len(riskCalls) /\ riskCalls[k].index = i /\ strategyCalls[i].signal # "error")

\* C19: a step in which a plugin call raises changes neither the ledger, the
\* balance nor the position and ends the run; once a plugin call has raised
\* the run is over at that call (no retry, no later data point, no result
\* calculated, returned or saved), and a run that is over takes no further
\* step.
C19_PluginFailureAborts ==
  [][/\ pc # "failed"
     /\ pluginRaised' => abortedAtRaise'
     /\ (pluginRaised' /\ ~pluginRaised) =>
          (pc \in {"strategy", "decide"} /\ UNCHANGED <<trades, balance, position, i>>)
    ]_vars

\* a risk call raised at the second data point, after a first round trip was
\* recorded in the ledger
C19_Witness ==
  /\ pc = "failed"
  /\ riskCalls # <<>> /\ riskCalls[Len(riskCalls)].threw
  /\ Len(trades) = 2
  /\ i = 2
  /\ stored = <<>> /\ returned = <<>>

\* ------------------------------------------------------ risk sizing alone
\* The sizing functions on their own.  signal and balance hold the first two
\* arguments, config the params object, riskResult the outcome: a RiskResult
\* with exact quotients, or the thrown error.
SizingBalances == {0, 1000, 10000}
SizingPercents == {-1, 0, 2, 100, 101}
SizingPrices == {98, 100}
RiskParams ==
  [riskPercent : SizingPercents, entryPrice : SizingPrices, stopLossPrice : SizingPrices,
   riskRewardRatio : {<<>>, <<3>>}]

\* Math.abs
Abs(x) == IF x < 0 THEN -x ELSE x

\* r / n for a quotient r and a number n >= 0
RatDiv(r, n) == [num |-> r.num, den |-> r.den * n]

\* the take profit computed on the long side whatever the signal
sizingTakeProfit_oneSided(sig, entryPrice, distance) == entryPrice + distance

\* the signal === 'long' ? ... : ... expression of both sizing functions
sizingTakeProfit(sig, entryPrice, distance) ==
  IF sig = "long" THEN entryPrice + distance ELSE entryPrice - distance

\* FixedPercentRiskStrategy.execute and PositionSizeCalculator.execute
sizingExecute(sig, bal, params) ==
  LET riskAmount == Ratio(bal * params.riskPercent, 100)
      priceDiff == Abs(params.entryPrice - params.stopLossPrice)
      positionSize == RatDiv(riskAmount, priceDiff)
      riskRewardRatio == 2
  IN [threw |-> FALSE,
      positionSize |-> positionSize,
      stopLoss |-> params.stopLossPrice,
      takeProfit |-> sizingTakeProfit(sig, params.entryPrice, priceDiff * riskRewardRatio),
      riskAmount |-> riskAmount,
      riskPercent |-> params.riskPercent,
      riskRewardRatio |-> riskRewardRatio]

\* FixedPercentRisk.calculate
sizingCalculate(sig, bal, params) ==
  LET riskRewardRatio == Coalesce(params.riskRewardRatio, 2)
      riskAmount == Ratio(bal * params.riskPercent, 100)
      priceDifference == Abs(params.entryPrice - params.stopLossPrice)
  IN IF params.riskPercent = 0 \/ params.entryPrice = 0 \/ params.stopLossPrice = 0
       THEN [threw |-> TRUE, error |-> "Required parameters are missing"]
     ELSE IF params.riskPercent <= 0 \/ params.riskPercent > 100
       THEN [threw |-> TRUE, error |-> "Risk percent must be between 0 and 100"]
     ELSE IF priceDifference = 0
       THEN [threw |-> TRUE, error |-> "Entry price cannot be equal to stop loss price"]
     ELSE [threw |-> FALSE,
           positionSize |-> RatDiv(riskAmount, priceDifference),
           stopLoss |-> params.stopLossPrice,
           takeProfit |-> sizingTakeProfit(sig, params.entryPrice,
                                           priceDifference * riskRewardRatio),
           riskAmount |-> riskAmount,
           riskPercent |-> params.riskPercent,
           riskRewardRatio |-> riskRewardRatio]

RiskInit ==
  /\ pc = "sizing"
  /\ signal \in {"long", "short"}
  /\ balance \in SizingBalances
  /\ config \in RiskParams
  /\ riskResult = <<>>
  /\ i = 0
  /\ trades = <<>>
  /\ position = <<>>
  /\ result = <<>>
  /\ stored = <<>>
  /\ returned = <<>>
  /\ strategyCalls = <<>>
  /\ riskCalls = <<>>
  /\ other = <<>>
  /\ memo = {}
  /\ loadedStrategies = {}
  /\ loadedRisks = {}
  /\ storeRecords = <<>>
  /\ calls = <<>>
  /\ strategies = {}

FixedPercentExecute ==
  /\ pc = "sizing"
  /\ riskResult' = <<sizingExecute(signal, balance, config)>>
  /\ pc' = "fixedPercentExecuted"
  /\ UNCHANGED <<config, i, signal, balance, trades, position, result, stored,
                 returned, strategyCalls, riskCalls, other, memo, loaderState>>

PositionSizeExecute ==
  /\ pc = "sizing"
  /\ riskResult' = <<sizingExecute(signal, balance, config)>>
  /\ pc' = "positionSizeExecuted"
  /\ UNCHANGED <<config, i, signal, balance, trades, position, result, stored,
                 returned, strategyCalls, riskCalls, other, memo, loaderState>>

FixedPercentCalculate ==
  /\ pc = "sizing"
  /\ riskResult' = <<sizingCalculate(signal, balance, config)>>
  /\ pc' = "fixedPercentCalculated"
  /\ UNCHANGED <<config, i, signal, balance, trades, position, result, stored,
                 returned, strategyCalls, riskCalls, other, memo, loaderState>>

RiskNext == FixedPercentExecute \/ PositionSizeExecute \/ FixedPercentCalculate

RiskSpec == RiskInit /\ [][RiskNext]_vars

sized == pc \in {"fixedPercentExecuted", "positionSizeExecuted", "fixedPercentCalculated"}

\* the inputs the sizing must reject
sizingInvalid ==
  \/ config.riskPercent <= 0
  \/ config.riskPercent > 100
  \/ config.entryPrice = config.stopLossPrice

\* ------------------------------------------------------------------ C17
\* C17: risk sizing invoked with riskPercent <= 0 or > 100, or with
\* entryPrice equal to stopLossPrice, ends in an error and returns no sizing.
C17_InvalidSizingRaises ==
  (sized /\ sizingInvalid) => riskResult[1].threw

StrategyStore == {"rsi_macd", "broken_strategy"}
LoadableStrategies == {"rsi_macd"}
StrategyNames == StrategyStore \cup {"missing_strategy"}
\* names in the risk store, and those whose class can be loaded
RiskStore == {"fixed_percent", "broken_rule"}
LoadableRisks == {"fixed_percent"}
RiskNames == RiskStore \cup {"missing_rule"}

ValidEntryConfig ==
  [initialBalance |-> 500,
   data |-> MakeData(<<2, 2>>, "ascending"),
   fees |-> [num |-> 1, den |-> 100],
   strategyParams |-> [stopLossPercent |-> 1],
   riskParams |-> [riskPercent |-> 2, entryPrice |-> 99, stopLossPrice |-> 1],
   riskPercent |-> 2,
   startDate |-> 1,
   endDate |-> 2,
   strategyName |-> "rsi_macd",
   riskRuleName |-> "fixed_percent"]

\* the valid config and one config per defect validateBacktestConfig names
EntryConfigShapes ==
  {ValidEntryConfig,
   [ValidEntryConfig EXCEPT !.data = <<>>],
   [ValidEntryConfig EXCEPT !.initialBalance = 0],
   [ValidEntryConfig EXCEPT !.riskPercent = 0],
   [ValidEntryConfig EXCEPT !.riskPercent = 101],
   [ValidEntryConfig EXCEPT !.startDate = 2]}

EntryConfigs ==
  {[[c EXCEPT !.strategyName = s] EXCEPT !.riskRuleName = r] :
     c \in EntryConfigShapes, s \in StrategyNames, r \in RiskNames}

\* the conditions under which validateBacktestConfig throws
configInvalid(c) ==
  \/ Len(c.data) = 0
  \/ c.initialBalance <= 0
  \/ c.riskPercent <= 0 \/ c.riskPercent > 100
  \/ c.startDate >= c.endDate

EntryInit ==
  /\ config \in EntryConfigs
  /\ pc \in {"coreEntry", "controllerEntry"}
  /\ i = 0
  /\ signal = "none"
  /\ riskResult = <<>>
  /\ balance = 0
  /\ trades = <<>>
  /\ position = <<>>
  /\ result = <<>>
  /\ stored = <<>>
  /\ returned = <<>>
  /\ strategyCalls = <<>>
  /\ riskCalls = <<>>
  /\ other = <<>>
  /\ memo = {}
  /\ loadedStrategies \in SUBSET LoadableStrategies
  /\ loadedRisks \in SUBSET LoadableRisks
  /\ storeRecords = <<>>
  /\ calls = <<>>
  /\ strategies = {}

engineState == <<config, i, signal, riskResult, balance, trades, position, result, stored,
                 returned, strategyCalls, riskCalls, other, memo, loaderState>>

CoreValidateConfig ==
  /\ pc = "coreEntry"
  /\ pc' = IF configInvalid(config) THEN "failed" ELSE "coreValidateStrategy"
  /\ UNCHANGED engineState

CoreValidateStrategy ==
  /\ pc = "coreValidateStrategy"
  /\ pc' = IF config.strategyName \in StrategyStore THEN "coreValidateRiskRule" ELSE "failed"
  /\ UNCHANGED engineState

CoreValidateRiskRule ==
  /\ pc = "coreValidateRiskRule"
  /\ pc' = IF config.riskRuleName \in RiskStore THEN "idle" ELSE "failed"
  /\ UNCHANGED engineState

ControllerRun ==
  /\ pc = "controllerEntry"
  /\ pc' = "idle"
  /\ UNCHANGED engineState

\* executeStrategy returns a signal only if the loader resolves the name:
\* getStrategy returns the cached entry, or finds the record, loads the class
\* and caches the new entry
ResolvedStrategyReturns ==
  /\ config.strategyName \in loadedStrategies \cup LoadableStrategies
  /\ StrategyAnswers
  /\ loadedStrategies' = loadedStrategies \cup {config.strategyName}
  /\ UNCHANGED <<loadedRisks, loaderStore>>

\* executeRiskStrategy returns a sizing only if the loader resolves the name
ResolvedRiskReturns ==
  /\ config.riskRuleName \in loadedRisks \cup LoadableRisks
  /\ RiskAnswers
  /\ loadedRisks' = loadedRisks \cup {config.riskRuleName}
  /\ UNCHANGED <<loadedStrategies, loaderStore>>

EntryNext ==
  \/ CoreValidateConfig \/ CoreValidateStrategy \/ CoreValidateRiskRule \/ ControllerRun
  \/ Start \/ LoopNext \/ LoopEnd
  \/ ResolvedStrategyReturns \/ StrategyThrows
  \/ ResolvedRiskReturns \/ RiskThrows
  \/ SkipOpen \/ OpenPosition \/ PushOpen
  \/ CheckClose \/ CloseBalance \/ CloseUpdate \/ PushClose \/ ClearPosition
  \/ Liquidate \/ ForceCloseBalance \/ ForceCloseUpdate \/ ForcePushClose
  \/ Calculate \/ SaveOk \/ SaveThrows \/ Return

EntrySpec == EntryInit /\ [][EntryNext]_vars

\* ------------------------------------------------------------------ C15
\* C15: in a run started with an invalid configuration, through either entry
\* point, no strategy or risk plugin is invoked, no trade is recorded, and no
\* result is calculated, persisted or returned.
C15_InvalidConfigRejected ==
  configInvalid(config) =>
    /\ strategyCalls = <<>> /\ riskCalls = <<>>
    /\ trades = <<>>
    /\ result = <<>> /\ stored = <<>> /\ returned = <<>>

\* ------------------------------------------------------------------ C16
\* C16: in a run whose strategy name or risk-rule name does not resolve to a
\* loadable plugin, no data point is processed (no strategy call returns a
\* signal, no trade is recorded) and no result is calculated, persisted or
\* returned.
C16_UnresolvedPluginRejected ==
  (config.strategyName \notin LoadableStrategies \/ config.riskRuleName \notin LoadableRisks) =>
    /\ \A k \in 1..Len(strategyCalls) : strategyCalls[k].signal = "error"
    /\ trades = <<>>
    /\ result = <<>> /\ stored = <<>> /\ returned = <<>>

\* ------------------------------------------------------- the same run twice
\* runBacktest called a second time with the same config once the first call
\* has returned.  The plugins are functions of their arguments: memo holds
\* what each has answered so far, and a call with arguments seen before gets
\* the same answer.  A run in which a call raises or the save fails yields no
\* result to compare and is left out.
DetData == {MakeData(ps, "ascending") : ps \in {<<2, 3>>, <<2, 2>>, <<3, 1>>}}
DetConfigs ==
  [initialBalance : InitialBalances, data : DetData, fees : FeeRates,
   strategyParams : StrategyParamSets, riskParams : ConfiguredRiskParams]

DetInit ==
  /\ config \in DetConfigs
  /\ pc = "idle"
  /\ i = 0
  /\ signal = "none"
  /\ riskResult = <<>>
  /\ balance = 0
  /\ trades = <<>>
  /\ position = <<>>
  /\ result = <<>>
  /\ stored = <<>>
  /\ returned = <<>>
  /\ strategyCalls = <<>>
  /\ riskCalls = <<>>
  /\ other = <<>>
  /\ memo = {}
  /\ loadedStrategies = {}
  /\ loadedRisks = {}
  /\ storeRecords = <<>>
  /\ calls = <<>>
  /\ strategies = {}

\* the answers plugin may give to args
answers(plugin, args, all) ==
  IF \E m \in memo : m.plugin = plugin /\ m.args = args
    THEN {m.out : m \in {n \in memo : n.plugin = plugin /\ n.args = args}}
    ELSE all

\* line 97 with a strategy that is a function of the data point
DetStrategyReturns ==
  /\ pc = "strategy"
  /\ \E s \in answers("strategy", candle, Signals) :
       /\ signal' = s
       /\ strategyCalls' = Append(strategyCalls,
            [index |-> i, positionOpen |-> position # <<>>, signal |-> s])
       /\ memo' = memo \cup {[plugin |-> "strategy", args |-> candle, out |-> s]}
  /\ pc' = "decide"
  /\ UNCHANGED <<config, i, riskResult, balance, trades, position, result, stored,
                 returned, riskCalls, other, loaderState>>

\* lines 100-103 with a risk rule that is a function of signal, balance and
\* entry price
DetRiskReturns ==
  /\ pc = "decide"
  /\ wantsOpen
  /\ \E r \in answers("risk", <<signal, balance, candle.price>>, RiskResults) :
       /\ riskResult' = <<r>>
       /\ memo' = memo \cup {[plugin |-> "risk", args |-> <<signal, balance, candle.price>>,
                              out |-> r]}
  /\ riskCalls' = Append(riskCalls,
       [index |-> i, signal |-> signal, balance |-> balance,
        entryPrice |-> riskCallParams.entryPrice,
        threw |-> FALSE])
  /\ config' = [config EXCEPT !.riskParams = configuredAfterCall]
  /\ pc' = "open"
  /\ UNCHANGED <<i, signal, balance, trades, position, result, stored, returned,
                 strategyCalls, other, loaderState>>

\* the second call: a new invocation with nothing returned yet
RunAgain ==
  /\ pc = "done"
  /\ Len(stored) = 1
  /\ pc' = "idle"
  /\ i' = 0
  /\ signal' = "none"
  /\ riskResult' = <<>>
  /\ result' = <<>>
  /\ returned' = <<>>
  /\ strategyCalls' = <<>>
  /\ riskCalls' = <<>>
  /\ UNCHANGED <<config, balance, trades, position, stored, other, memo, loaderState>>

DetNext ==
  \/ Start \/ LoopNext \/ LoopEnd
  \/ DetStrategyReturns \/ DetRiskReturns
  \/ SkipOpen \/ OpenPosition \/ PushOpen
  \/ CheckClose \/ CloseBalance \/ CloseUpdate \/ PushClose \/ ClearPosition
  \/ Liquidate \/ ForceCloseBalance \/ ForceCloseUpdate \/ ForcePushClose
  \/ Calculate \/ SaveOk \/ Return
  \/ RunAgain

DetSpec == DetInit /\ [][DetNext]_vars

\* ------------------------------------------------------------------ C14
\* C14: two runs with the same config, the same data and plugins that are
\* functions of their arguments give the same result: the same ledger, trade
\* by trade, and the same value in every metric field.
C14_Determinism ==
  Len(stored) = 2 =>
    /\ stored[1] = stored[2]
    /\ pc = "done" => returned = <<stored[1]>>

\* both runs made two round trips and ended with a balance other than the
\* initial one
C14_Witness ==
  /\ Len(stored) = 2
  /\ pc = "done"
  /\ Len(stored[2].trades) = 4
  /\ stored[2].finalBalance # stored[2].initialBalance

\* ------------------------------------------------------ two calls at once
\* Two runBacktest calls in flight on the same service instance.  One call
\* runs at a time (a single thread); control passes to the other call only
\* where the running one waits at an await (line 97, line 100, line 128),
\* has not started, or is over.  The variables hold the frame of the running
\* call and other the frame of the waiting one; stored is the one collection
\* both save to.
ConcConfigA ==
  [initialBalance |-> 500, data |-> MakeData(<<2, 2>>, "ascending"),
   fees |-> [num |-> 1, den |-> 100],
   strategyParams |-> [stopLossPercent |-> 1],
   riskParams |-> [riskPercent |-> 2, entryPrice |-> 99, stopLossPrice |-> 1]]
ConcConfigB ==
  [initialBalance |-> 700, data |-> MakeData(<<3, 1>>, "ascending"),
   fees |-> [num |-> 1, den |-> 100],
   strategyParams |-> [stopLossPercent |-> 1],
   riskParams |-> [riskPercent |-> 2, entryPrice |-> 99, stopLossPrice |-> 1]]

\* the frame of a call that has not started
newFrame(c) ==
  [config |-> c, pc |-> "idle", i |-> 0, signal |-> "none", riskResult |-> <<>>,
   balance |-> 0, trades |-> <<>>, position |-> <<>>, result |-> <<>>,
   returned |-> <<>>, strategyCalls |-> <<>>, riskCalls |-> <<>>]

\* the frame of the running call
frame ==
  [config |-> config, pc |-> pc, i |-> i, signal |-> signal, riskResult |-> riskResult,
   balance |-> balance, trades |-> trades, position |-> position, result |-> result,
   returned |-> returned, strategyCalls |-> strategyCalls, riskCalls |-> riskCalls]

ConcInit ==
  /\ config = ConcConfigA
  /\ pc = "idle"
  /\ i = 0
  /\ signal = "none"
  /\ riskResult = <<>>
  /\ balance = 0
  /\ trades = <<>>
  /\ position = <<>>
  /\ result = <<>>
  /\ stored = <<>>
  /\ returned = <<>>
  /\ strategyCalls = <<>>
  /\ riskCalls = <<>>
  /\ other = <<newFrame(ConcConfigB)>>
  /\ memo = {}
  /\ loadedStrategies = {}
  /\ loadedRisks = {}
  /\ storeRecords = <<>>
  /\ calls = <<>>
  /\ strategies = {}

\* the running call waits at an await, has not started, or is over
yields ==
  \/ pc \in {"idle", "strategy", "save", "done", "failed"}
  \/ pc = "decide" /\ wantsOpen

\* the balance left in place when control passes to the other call, as an
\* instance field would be
Switch_sharedBalance ==
  /\ yields
  /\ other # <<>>
  /\ config' = other[1].config
  /\ pc' = other[1].pc
  /\ i' = other[1].i
  /\ signal' = other[1].signal
  /\ riskResult' = other[1].riskResult
  /\ balance' = balance
  /\ trades' = other[1].trades
  /\ position' = other[1].position
  /\ result' = other[1].result
  /\ returned' = other[1].returned
  /\ strategyCalls' = other[1].strategyCalls
  /\ riskCalls' = other[1].riskCalls
  /\ other' = <<frame>>
  /\ UNCHANGED <<stored, memo, loaderState>>

\* control passes to the other call, each call keeping its own locals
Switch ==
  /\ yields
  /\ other # <<>>
  /\ config' = other[1].config
  /\ pc' = other[1].pc
  /\ i' = other[1].i
  /\ signal' = other[1].signal
  /\ riskResult' = other[1].riskResult
  /\ balance' = other[1].balance
  /\ trades' = other[1].trades
  /\ position' = other[1].position
  /\ result' = other[1].result
  /\ returned' = other[1].returned
  /\ strategyCalls' = other[1].strategyCalls
  /\ riskCalls' = other[1].riskCalls
  /\ other' = <<frame>>
  /\ UNCHANGED <<stored, memo, loaderState>>

\* the sizings the risk rule returns in the two-call runs
ConcRiskResults == {r \in RiskResults : r.positionSize = 1 /\ r.riskAmount = 100}

ConcRiskReturns == RiskReturns /\ riskResult'[1] \in ConcRiskResults

ConcNext ==
  \/ Start \/ LoopNext \/ LoopEnd
  \/ StrategyReturns \/ StrategyThrows
  \/ ConcRiskReturns \/ RiskThrows
  \/ SkipOpen \/ OpenPosition \/ PushOpen
  \/ CheckClose \/ CloseBalance \/ CloseUpdate \/ PushClose \/ ClearPosition
  \/ Liquidate \/ ForceCloseBalance \/ ForceCloseUpdate \/ ForcePushClose
  \/ Calculate \/ SaveOk \/ SaveThrows \/ Return
  \/ Switch

ConcSpec == ConcInit /\ [][ConcNext]_vars

\* ------------------------------------------------------------------ C20
\* the balance call f had before its n-th trade (a CLOSE) was made
ownBalanceBefore(f, n) ==
  IF n = 2 THEN f.config.initialBalance ELSE f.trades[n - 2].balance

\* the balance call f has after its whole ledger so far
ownBalanceAfter(f) ==
  IF Len(f.trades) < 2 THEN f.config.initialBalance
  ELSE f.trades[Len(f.trades) - (Len(f.trades) % 2)].balance

\* everything call f holds is what its own config, its own data and the
\* answers its own plugin calls got determine
ownRun(f) ==
  LET tr == f.trades
      data == f.config.data
  IN
  /\ \A k \in 1..Len(tr) :
       /\ tr[k].action = (IF k % 2 = 1 THEN "OPEN" ELSE "CLOSE")
       /\ \E j \in 1..Len(data) :
            tr[k].price = data[j].price /\ tr[k].timestamp = data[j].timestamp
       /\ tr[k].action = "CLOSE" =>
            /\ tr[k].type = tr[k - 1].type /\ tr[k].size = tr[k - 1].size
            /\ tr[k].balance = ownBalanceBefore(f, k)
                 + RefDelta(tr[k].type, tr[k - 1].price, tr[k].price, tr[k].size,
                            f.config.fees)
  /\ f.pc # "idle" => f.balance = ownBalanceAfter(f)
  /\ IF Len(tr) % 2 = 1
       THEN /\ f.position # <<>>
            /\ f.position[1].status = "OPEN"
            /\ f.position[1].entryPrice = tr[Len(tr)].price
            /\ f.position[1].entryTime = tr[Len(tr)].timestamp
       ELSE f.position # <<>> => f.position[1].status = "CLOSED"
  /\ \A k \in 1..Len(f.strategyCalls) :
       /\ f.strategyCalls[k].index = k
       /\ k <= Len(data)
  /\ \A k \in 1..Len(f.riskCalls) :
       /\ f.riskCalls[k].entryPrice = data[f.riskCalls[k].index].price
       /\ f.riskCalls[k].balance =
            (IF k = 1 THEN f.config.initialBalance ELSE tr[2 * (k - 1)].balance)
  /\ f.result # <<>> =>
       f.result[1] = calculateBacktestResult(tr, f.config.initialBalance, ownBalanceAfter(f))
  /\ f.returned # <<>> => f.returned = f.result
  /\ f.pc \in {"return", "done"} => \E n \in 1..Len(stored) : stored[n] = f.result[1]

\* C20: with two calls in flight on one service instance, switching at the
\* awaits, each call's ledger, balance, position, plugin arguments and result
\* are those of a run of its own config alone: every trade is at a point of its
\* own data, every CLOSE balance is its own previous balance plus that round
\* trip's net, the risk rule is given its own balance, the result is computed
\* from its own ledger, and each saved result is the result of one of the
\* calls.
C20_ConcurrentRunsIndependent ==
  /\ other # <<>> => ownRun(other[1])
  /\ yields => ownRun(frame)
  /\ \A n \in 1..Len(stored) :
       \/ result # <<>> /\ stored[n] = result[1]
       \/ other # <<>> /\ other[1].result # <<>> /\ stored[n] = other[1].result[1]

\* both calls are in the middle of their data at once: the running one holds
\* an open position at its second point while the other one, with a round trip
\* behind it, waits for its risk rule
C20_Witness ==
  /\ pc = "strategy" /\ i = 2 /\ Len(trades) = 1
  /\ other # <<>>
  /\ other[1].pc = "decide" /\ other[1].i = 2 /\ Len(other[1].trades) = 2
  /\ other[1].balance # other[1].config.initialBalance

\* ------------------------------------------------------------------ C21
\* C21: no step of a run, through either entry point, adds, replaces or
\* removes an entry of the strategy loader's or the risk loader's cache.
C21_RegistriesReadOnly == [][UNCHANGED loaderState]_vars

\* ------------------------------------------------------ the loaders alone
\* Lookups by name made directly on the loaders and the service, in any
\* order.  strategyCalls and riskCalls log each lookup: the name asked for,
\* whether it was cached when asked, and how the lookup ended.
MaxCalls == 3

\* the entry cached before the record is looked up
lookup_cacheFirst(name, cache, store, loadable) ==
  IF name \in cache THEN [outcome |-> "cached", cache |-> cache]
  ELSE IF name \notin store THEN [outcome |-> "NotFoundException", cache |-> cache \cup {name}]
  ELSE IF name \notin loadable THEN [outcome |-> "Error", cache |-> cache \cup {name}]
  ELSE [outcome |-> "loaded", cache |-> cache \cup {name}]

\* getStrategy / getRiskStrategy: the cached entry, else the stored record
\* (NotFoundException if none), else the class (Error if it cannot be loaded
\* or is not valid), else a new entry set in the cache
lookup(name, cache, store, loadable) ==
  IF name \in cache THEN [outcome |-> "cached", cache |-> cache]
  ELSE IF name \notin store THEN [outcome |-> "NotFoundException", cache |-> cache]
  ELSE IF name \notin loadable THEN [outcome |-> "Error", cache |-> cache]
  ELSE [outcome |-> "loaded", cache |-> cache \cup {name}]

LoaderInit ==
  /\ pc = "serving"
  /\ loadedStrategies = {}
  /\ loadedRisks = {}
  /\ storeRecords = <<>>
  /\ calls = <<>>
  /\ strategies = {}
  /\ strategyCalls = <<>>
  /\ riskCalls = <<>>
  /\ config = <<>>
  /\ i = 0
  /\ signal = "none"
  /\ riskResult = <<>>
  /\ balance = 0
  /\ trades = <<>>
  /\ position = <<>>
  /\ result = <<>>
  /\ stored = <<>>
  /\ returned = <<>>
  /\ other = <<>>
  /\ memo = {}

moreCalls == Len(strategyCalls) + Len(riskCalls) < MaxCalls

GetStrategy ==
  /\ moreCalls
  /\ \E name \in StrategyNames :
       LET r == lookup(name, loadedStrategies, StrategyStore, LoadableStrategies) IN
       /\ loadedStrategies' = r.cache
       /\ strategyCalls' = Append(strategyCalls,
            [call |-> "getStrategy", name |-> name,
             cached |-> name \in loadedStrategies, outcome |-> r.outcome])
  /\ UNCHANGED <<config, pc, i, signal, riskResult, balance, trades, position, result,
                 stored, returned, riskCalls, other, memo, loadedRisks,
                 loaderStore>>

GetRiskStrategy ==
  /\ moreCalls
  /\ \E name \in RiskNames :
       LET r == lookup(name, loadedRisks, RiskStore, LoadableRisks) IN
       /\ loadedRisks' = r.cache
       /\ riskCalls' = Append(riskCalls,
            [call |-> "getRiskStrategy", name |-> name,
             cached |-> name \in loadedRisks, outcome |-> r.outcome])
  /\ UNCHANGED <<config, pc, i, signal, riskResult, balance, trades, position, result,
                 stored, returned, strategyCalls, other, memo, loadedStrategies,
                 loaderStore>>

\* findOne({ name }) on the stored records, NotFoundException if none
GetStrategyDescription ==
  /\ moreCalls
  /\ \E name \in StrategyNames :
       strategyCalls' = Append(strategyCalls,
         [call |-> "getStrategyDescription", name |-> name,
          cached |-> name \in loadedStrategies,
          outcome |-> IF name \in StrategyStore THEN "description"
                      ELSE "NotFoundException"])
  /\ UNCHANGED <<config, pc, i, signal, riskResult, balance, trades, position, result,
                 stored, returned, riskCalls, other, memo, loaderState>>

LoaderNext == GetStrategy \/ GetRiskStrategy \/ GetStrategyDescription

LoaderSpec == LoaderInit /\ [][LoaderNext]_vars

\* ------------------------------------------------------------------ C22
\* C22: every getStrategyDescription of a name with no stored record, and
\* every getStrategy / getRiskStrategy of a name with no stored record that
\* was not cached when asked, ended in NotFoundException; and no name without
\* a stored record (nor one whose class cannot be loaded) is in a loader
\* cache.
C22_AbsentNameNotFound ==
  /\ \A k \in 1..Len(strategyCalls) :
       LET c == strategyCalls[k] IN
       (c.name \notin StrategyStore /\ (c.call = "getStrategyDescription" \/ ~c.cached)) =>
         c.outcome = "NotFoundException"
  /\ \A k \in 1..Len(riskCalls) :
       LET c == riskCalls[k] IN
       (c.name \notin RiskStore /\ ~c.cached) => c.outcome = "NotFoundException"
  /\ loadedStrategies \subseteq LoadableStrategies
  /\ loadedRisks \subseteq LoadableRisks

\* after a successful load of rsi_macd, a lookup of the missing strategy and a
\* lookup of the missing risk rule both ended in NotFoundException and only
\* rsi_macd is cached
C22_Witness ==
  /\ Len(strategyCalls) = 2 /\ Len(riskCalls) = 1
  /\ strategyCalls[1].outcome = "loaded"
  /\ strategyCalls[2].call = "getStrategy"
  /\ strategyCalls[2].name = "missing_strategy"
  /\ strategyCalls[2].outcome = "NotFoundException"
  /\ riskCalls[1].name = "missing_rule" /\ riskCalls[1].outcome = "NotFoundException"
  /\ loadedStrategies = {"rsi_macd"} /\ loadedRisks = {}

\* ------------------------------------------------------------------ C23
\* C23: whenever the close trigger of the loop matches, the position it is
\* about to close was opened at an earlier data point than the current one.
C23_NoCloseAtOpeningPoint ==
  pc = "close" => position[1].entryTime # candle.timestamp

\* ------------------------------------------------------------------ C24
\* the position variable holds an OPEN position made of the signal, the
\* current data point and the RiskResult of this iteration
openedHere ==
  /\ position # <<>>
  /\ position[1].type = signal
  /\ position[1].entryPrice = candle.price
  /\ position[1].entryTime = candle.timestamp
  /\ position[1].size = riskResult[1].positionSize
  /\ position[1].stopLoss = riskResult[1].stopLoss
  /\ position[1].takeProfit = riskResult[1].takeProfit
  /\ position[1].entryBalance = riskResult[1].riskAmount
  /\ position[1].status = "OPEN"

\* C24: the position created at a data point has the signal as direction, the
\* data point's price and timestamp as entry, size, stop-loss and take-profit
\* of the RiskResult, the RiskResult's riskAmount as entry balance and status
\* OPEN; the OPEN trade then appended records that direction, price, size and
\* timestamp, riskAmount as balance and pnl 0.
C24_OpenTransition ==
  /\ pc = "pushOpen" => openedHere
  /\ (pc = "check" /\ riskResult # <<>>) =>
       /\ openedHere
       /\ trades # <<>>
       /\ LET t == trades[Len(trades)] IN
          /\ t.action = "OPEN"
          /\ t.type = signal
          /\ t.price = candle.price
          /\ t.size = riskResult[1].positionSize
          /\ t.timestamp = candle.timestamp
          /\ t.balance = riskResult[1].riskAmount
          /\ t.pnl = 0

\* a short of size 2 opened at the second data point, after a round trip,
\* with take-profit below stop-loss and riskAmount 100
C24_Witness ==
  /\ pc = "check" /\ i = 2 /\ Len(trades) = 3
  /\ riskResult # <<>>
  /\ signal = "short"
  /\ position[1].size = 2 /\ position[1].stopLoss = 3 /\ position[1].takeProfit = 1
  /\ trades[3].balance = 100

\* ------------------------------------------------------------------ C25
\* the risk calls of the run that returned a sizing
sizings == {k \in 1..Len(riskCalls) : ~riskCalls[k].threw}

\* C25: every risk call is made at a data point where the strategy returned
\* long or short while no position was open, with that signal, and at most
\* once per data point; every such data point gets its risk call; and the
\* calls that returned a sizing are, in order, the OPEN trades of the ledger
\* (the k-th OPEN is at the data point of the k-th call), so no OPEN is
\* recorded without a call and none, or a signal while a position is open,
\* opens nothing.
C25_RiskCallPerOpen ==
  /\ \A k \in 1..Len(riskCalls) :
       LET c == riskCalls[k] IN
       /\ c.index <= Len(strategyCalls)
       /\ strategyCalls[c.index].signal \in {"long", "short"}
       /\ strategyCalls[c.index].signal = c.signal
       /\ ~strategyCalls[c.index].positionOpen
       /\ k > 1 => riskCalls[k - 1].index < c.index
  /\ \A j \in 1..Len(strategyCalls) :
       (/\ strategyCalls[j].signal \in {"long", "short"}
        /\ ~strategyCalls[j].positionOpen
        /\ ~(j = i /\ pc = "decide")) =>
         \E k \in 1..Len(riskCalls) : riskCalls[k].index = j
  /\ Cardinality(sizings) = OpenCount(trades) + (IF pc \in {"open", "pushOpen"} THEN 1 ELSE 0)
  /\ \A n \in 1..Len(trades) :
       trades[n].action = "OPEN" =>
         LET k == (n + 1) \div 2 IN
         /\ k \in sizings
         /\ trades[n].timestamp = config.data[riskCalls[k].index].timestamp
         /\ trades[n].type = riskCalls[k].signal

\* long at the first data point, answered by one risk call and one OPEN;
\* short at the second while the long was still open: no second call, no
\* second OPEN
C25_Witness ==
  /\ pc = "done"
  /\ Len(strategyCalls) = 2
  /\ strategyCalls[1].signal = "long" /\ ~strategyCalls[1].positionOpen
  /\ strategyCalls[2].signal = "short" /\ strategyCalls[2].positionOpen
  /\ Len(riskCalls) = 1
  /\ OpenCount(trades) = 1

\* ------------------------------------------------------------------ C26
\* the net (PnL minus fees) of the first m round trips of the ledger
RECURSIVE netOfRoundTrips(_, _, _)
netOfRoundTrips(tr, m, fee) ==
  IF m = 0 THEN 0
  ELSE netOfRoundTrips(tr, m - 1, fee)
       + RefDelta(tr[2 * m].type, tr[2 * m - 1].price, tr[2 * m].price, tr[2 * m].size, fee)

\* C26: the k-th risk call of a run is given the initial balance plus the net
\* (PnL minus fees) of the k - 1 positions closed before it, and an
\* entryPrice equal to the price of the data point it is made at, not the
\* entryPrice of the configured risk parameters.
C26_RiskCallArguments ==
  \A k \in 1..Len(riskCalls) :
    /\ riskCalls[k].balance =
         config.initialBalance + netOfRoundTrips(trades, k - 1, config.fees)
    /\ riskCalls[k].entryPrice = config.data[riskCalls[k].index].price
    /\ riskCalls[k].entryPrice # config.riskParams.entryPrice

\* a second risk call, made at a price other than the first one's after a
\* round trip that changed the balance
C26_Witness ==
  /\ Len(riskCalls) = 2
  /\ riskCalls[2].balance # config.initialBalance
  /\ riskCalls[2].entryPrice # riskCalls[1].entryPrice

\* ------------------------------------------------------------------ C27
\* The reference strategy alone: RsiMacdStrategy.execute on one data point.
\* macd is counted in halves, so the 0.5 of the placeholder is 1.
RsiValues == {0, 10, 20, 25, 29, 30, 31, 40, 50, 60, 70, 71, 80, 90, 100}
MacdValues == {-1, 0, 1}

\* lines 30-33: the placeholder returns the same example values for any data
calculateIndicators(data) == [rsi |-> 25, macd |-> 1]

\* lines 25-27: the decision on the indicator values
rsiMacdSignal(ind) ==
  IF ind.rsi < 30 /\ ind.macd > 0 THEN "long"
  ELSE IF ind.rsi > 70 /\ ind.macd < 0 THEN "short"
  ELSE "null"

StrategyInit ==
  /\ config = ValidEntryConfig
  /\ pc = "strategy"
  /\ i = 0
  /\ signal = "none"
  /\ riskResult = <<>>
  /\ balance = 0
  /\ trades = <<>>
  /\ position = <<>>
  /\ result = <<>>
  /\ stored = <<>>
  /\ returned = <<>>
  /\ strategyCalls = <<>>
  /\ riskCalls = <<>>
  /\ other = <<>>
  /\ memo = {}
  /\ loadedStrategies = {}
  /\ loadedRisks = {}
  /\ storeRecords = <<>>
  /\ calls = <<>>
  /\ strategies = {}

\* execute as written, on the indicators of the placeholder
ExecutePlaceholder ==
  /\ pc = "strategy"
  /\ \E price \in Prices :
       LET ind == calculateIndicators([price |-> price]) IN
         /\ signal' = rsiMacdSignal(ind)
         /\ strategyCalls' = <<[price |-> price, rsi |-> ind.rsi, macd |-> ind.macd,
                                placeholder |-> TRUE]>>
  /\ UNCHANGED <<config, pc, i, riskResult, balance, trades, position, result,
                 stored, returned, riskCalls, other, memo, loaderState>>

\* execute on the values an indicator calculation in the placeholder's
\* place can deliver
ExecuteCalculated ==
  /\ pc = "strategy"
  /\ \E price \in Prices, rsi \in RsiValues, macd \in MacdValues :
       LET ind == [rsi |-> rsi, macd |-> macd] IN
         /\ signal' = rsiMacdSignal(ind)
         /\ strategyCalls' = <<[price |-> price, rsi |-> rsi, macd |-> macd,
                                placeholder |-> FALSE]>>
  /\ UNCHANGED <<config, pc, i, riskResult, balance, trades, position, result,
                 stored, returned, riskCalls, other, memo, loaderState>>

StrategyNext == ExecutePlaceholder \/ ExecuteCalculated

StrategySpec == StrategyInit /\ [][StrategyNext]_vars

timeOrdered ==
  \A k \in 2..Len(config.data) :
    config.data[k - 1].timestamp <= config.data[k].timestamp

\* where a closed position object may still be held: between its update and
\* its removal, and after the forced liquidation that ends the run
closedHeldAt == {"pushClose", "clear", "forcePush", "calc", "save", "return", "done", "failed"}

\* C28: every CLOSE trade has the direction and the size of the OPEN trade
\* just before it in the ledger and, when the data timestamps are
\* non-decreasing, a timestamp not earlier than that OPEN's; a closed position
\* is not kept for the next data point, and every OPEN after a CLOSE comes from
\* a risk call of its own, made on the balance that CLOSE left.
C28_NoPartialExitNoReopen ==
  /\ \A n \in 1..Len(trades) :
       trades[n].action = "CLOSE" =>
         /\ n > 1
         /\ trades[n - 1].action = "OPEN"
         /\ trades[n].type = trades[n - 1].type
         /\ trades[n].size = trades[n - 1].size
  /\ timeOrdered =>
       \A n \in 2..Len(trades) :
         trades[n].action = "CLOSE" => trades[n].timestamp >= trades[n - 1].timestamp
  /\ (position # <<>> /\ position[1].status = "CLOSED") => pc \in closedHeldAt
  /\ (position # <<>> /\ pc \in {"loop", "strategy", "decide", "risk"}) =>
       /\ trades # <<>>
       /\ trades[Len(trades)].action = "OPEN"
       /\ trades[Len(trades)].timestamp = position[1].entryTime
  /\ \A n \in 2..Len(trades) :
       trades[n].action = "OPEN" =>
         LET m == (n + 1) \div 2 IN
         /\ trades[n - 1].action = "CLOSE"
         /\ m <= Len(riskCalls) /\ ~riskCalls[m].threw
         /\ riskCalls[m].balance = trades[n - 1].balance
         /\ config.data[riskCalls[m].index].timestamp = trades[n].timestamp
         /\ riskCalls[m].index > riskCalls[m - 1].index

\* data in time order: a long of size 2 opened and closed, then a short
\* opened at the next data point from a second risk call and closed in turn
C28_Witness ==
  /\ timeOrdered
  /\ Len(trades) = 4
  /\ trades[1].type = "long" /\ trades[1].size = 2
  /\ trades[2].action = "CLOSE" /\ trades[2].size = 2
  /\ trades[3].timestamp > trades[2].timestamp
  /\ trades[4].action = "CLOSE" /\ trades[4].type = "short"
  /\ trades[3].action = "OPEN" /\ trades[3].type = "short"
  /\ Len(riskCalls) = 2

\* ------------------------------------------------------------------ C29
\* Runs over data of two points, in either time order.
ReplayConfigs == {c \in Configs : Len(c.data) = 2}

ReplayInit ==
  /\ config \in ReplayConfigs
  /\ pc = "idle"
  /\ i = 0
  /\ signal = "none"
  /\ riskResult = <<>>
  /\ balance = 0
  /\ trades = <<>>
  /\ position = <<>>
  /\ result = <<>>
  /\ stored = <<>>
  /\ returned = <<>>
  /\ strategyCalls = <<>>
  /\ riskCalls = <<>>
  /\ other = <<>>
  /\ memo = {}
  /\ loadedStrategies = {}
  /\ loadedRisks = {}
  /\ storeRecords = <<>>
  /\ calls = <<>>
  /\ strategies = {}

ReplaySpec == ReplayInit /\ [][Next]_vars

\* the ledger after a step is the ledger before it with trades added at the end
extended(before, after) ==
  /\ Len(after) >= Len(before)
  /\ SubSeq(after, 1, Len(before)) = before

\* C29: every step leaves the ledger as it was or adds trades at its end; the
\* data points are taken one by one in sequence order, each handed to the
\* strategy once; and the timestamps of the ledger are non-decreasing
\* whenever those of the data are.
C29_LedgerAppendOnly ==
  [][/\ extended(trades, trades')
     /\ i' \in {i, i + 1}
     /\ i' <= Len(config.data)
     /\ extended(strategyCalls, strategyCalls')
     /\ \A k \in 1..Len(strategyCalls') : strategyCalls'[k].index = k
     /\ Len(strategyCalls') \in {i', i' - 1}
     /\ timeOrdered =>
          \A n \in 2..Len(trades') : trades'[n - 1].timestamp <= trades'[n].timestamp
    ]_vars

\* both data points consumed, with a round trip at each of them in the ledger
C29_Witness ==
  /\ timeOrdered
  /\ pc = "done"
  /\ i = 2
  /\ Len(strategyCalls) = 2
  /\ Len(trades) = 4
  /\ trades[2].timestamp = 1
  /\ trades[3].timestamp = 2

\* ------------------------------------------------------------------ C30
\* C30: no step of a run changes its BacktestConfig: initialBalance, data,
\* fees, strategyParams and riskParams, the configured entryPrice included,
\* are after the run, returned or failed, what they were before it.
C30_ConfigUnchanged ==
  [][config' = config]_vars

\* a run that returned after two risk calls, each made with the price of its
\* data point as entryPrice, the configured entryPrice being another value
C30_Witness ==
  /\ pc = "done"
  /\ returned # <<>>
  /\ Len(riskCalls) = 2
  /\ riskCalls[1].entryPrice # riskCalls[2].entryPrice
  /\ config.riskParams.entryPrice \notin {riskCalls[1].entryPrice, riskCalls[2].entryPrice}

\* ------------------------------------------------ a lazy loader, step by step
\* StrategyLoader.getStrategy and RiskLoader.getRiskStrategy are the same code
\* on their own Map and store; the loader studied is chosen at the start
\* (config.loader).  A call runs to its first await, findOne; the record is
\* read when findOne resolves; the class is there when the import resolves.
\* The cache is a set of entries [name, object], an object being named by the
\* number of the call that built it.
MaxLoads == 3
LazyLoaders == {"StrategyLoader", "RiskLoader"}

\* the records stored for a loader: a class that loads and has execute, a file
\* that cannot be imported, a class whose instances have no execute function
LazyRecords(loader) ==
  IF loader = "StrategyLoader"
  THEN {[name |-> "rsi_macd", class |-> "valid"],
        [name |-> "broken_strategy", class |-> "importFails"],
        [name |-> "hollow_strategy", class |-> "noExecute"]}
  ELSE {[name |-> "fixed_percent", class |-> "valid"],
        [name |-> "broken_rule", class |-> "importFails"],
        [name |-> "hollow_rule", class |-> "noExecute"]}

LazyNames(loader) ==
  {r.name : r \in LazyRecords(loader)}
    \cup {IF loader = "StrategyLoader" THEN "missing_strategy" ELSE "missing_rule"}

\* the Map of the loader studied
lazyCache == IF config.loader = "StrategyLoader" THEN loadedStrategies ELSE loadedRisks

entriesOf(cache, name) == {e \in cache : e.name = name}

\* the cache never consulted
cacheHas_never(cache, name) == FALSE

\* lines 74 / 23: this.loadedStrategies.has(name)
cacheHas(cache, name) == entriesOf(cache, name) # {}

\* Map.set: the entry of the name replaced or added
cacheSet(cache, name, object) ==
  (cache \ entriesOf(cache, name)) \cup {[name |-> name, object |-> object]}

\* the entry set as soon as the class is imported, before the instance is
\* checked
cacheAfterLoad_unchecked(cache, name, class, object) ==
  IF class # "importFails" THEN cacheSet(cache, name, object) ELSE cache

\* lines 84-102 / 33-50: the entry is set only after the class was loaded and
\* the instance passed isValidStrategy
cacheAfterLoad(cache, name, class, object) ==
  IF class = "valid" THEN cacheSet(cache, name, object) ELSE cache

LazyInit ==
  /\ config \in [loader : LazyLoaders]
  /\ pc = "serving"
  /\ storeRecords = LazyRecords(config.loader)
  /\ calls = <<>>
  /\ loadedStrategies = {}
  /\ loadedRisks = {}
  /\ strategies = {}
  /\ i = 0
  /\ signal = "none"
  /\ riskResult = <<>>
  /\ balance = 0
  /\ trades = <<>>
  /\ position = <<>>
  /\ result = <<>>
  /\ stored = <<>>
  /\ returned = <<>>
  /\ strategyCalls = <<>>
  /\ riskCalls = <<>>
  /\ other = <<>>
  /\ memo = {}

lazyFrame == <<config, pc, i, signal, riskResult, balance, trades, position, result,
               stored, returned, strategyCalls, riskCalls, other, memo, strategies>>

\* the caches after the Map of the loader studied became c
cacheBecomes(c) ==
  /\ loadedStrategies' = IF config.loader = "StrategyLoader" THEN c ELSE loadedStrategies
  /\ loadedRisks' = IF config.loader = "RiskLoader" THEN c ELSE loadedRisks

succeeded(k) == calls[k].at = "done" /\ calls[k].outcome \in {"cached", "loaded"}

\* lines 73-78: the call returns the cached entry, or asks the store and waits
BeginCall ==
  /\ Len(calls) < MaxLoads
  /\ \E name \in LazyNames(config.loader) :
       LET hit == cacheHas(lazyCache, name)
           held == IF entriesOf(lazyCache, name) = {} THEN 0
                   ELSE (CHOOSE e \in entriesOf(lazyCache, name) : TRUE).object
       IN calls' = Append(calls,
            [name |-> name,
             at |-> IF hit THEN "done" ELSE "findOne",
             outcome |-> IF hit THEN "cached" ELSE "pending",
             object |-> IF hit THEN held ELSE 0,
             queried |-> ~hit,
             imported |-> FALSE,
             class |-> "unknown",
             afterSuccess |-> \E k \in 1..Len(calls) : calls[k].name = name /\ succeeded(k),
             heldAtStart |-> held,
             recordAtStart |-> \E r \in storeRecords : r.name = name])
  /\ UNCHANGED <<lazyFrame, storeRecords, loadedStrategies, loadedRisks>>

\* lines 78-83: findOne resolves; no record is NotFoundException, else the
\* class is imported
FindOneResolves ==
  /\ \E k \in 1..Len(calls) :
       /\ calls[k].at = "findOne"
       /\ LET found == {r \in storeRecords : r.name = calls[k].name} IN
          calls' = [calls EXCEPT ![k] =
            IF found = {}
            THEN [@ EXCEPT !.at = "done", !.outcome = "NotFoundException"]
            ELSE [@ EXCEPT !.at = "import", !.imported = TRUE,
                           !.class = (CHOOSE r \in found : TRUE).class]]
  /\ UNCHANGED <<lazyFrame, storeRecords, loadedStrategies, loadedRisks>>

\* lines 83-103: the import resolves; no class or an instance without execute
\* is an Error, else the new entry is set and returned
ImportResolves ==
  /\ \E k \in 1..Len(calls) :
       /\ calls[k].at = "import"
       /\ calls' = [calls EXCEPT ![k] =
            IF calls[k].class = "valid"
            THEN [@ EXCEPT !.at = "done", !.outcome = "loaded", !.object = k]
            ELSE [@ EXCEPT !.at = "done", !.outcome = "Error"]]
       /\ cacheBecomes(cacheAfterLoad(lazyCache, calls[k].name, calls[k].class, k))
  /\ UNCHANGED <<lazyFrame, storeRecords>>

\* somebody else deletes a record of the store
RemoveRecord ==
  /\ \E r \in storeRecords : storeRecords' = storeRecords \ {r}
  /\ UNCHANGED <<lazyFrame, calls, loadedStrategies, loadedRisks>>

LazyNext == BeginCall \/ FindOneResolves \/ ImportResolves \/ RemoveRecord

LazySpec == LazyInit /\ [][LazyNext]_vars

\* ------------------------------------------------------------------ C31
\* C31: a call started after a call for the same name has returned an entry
\* returns at once the entry the cache held when it started, having neither
\* asked the store nor imported the class, whether or not the record is
\* still stored; and whatever the interleaving of the calls, the cache holds
\* at most one entry per name, and exactly one once a load of that name has
\* completed.
C31_LoaderCaching ==
  /\ \A k \in 1..Len(calls) :
       calls[k].afterSuccess =>
         /\ calls[k].at = "done"
         /\ calls[k].outcome = "cached"
         /\ ~calls[k].queried
         /\ ~calls[k].imported
         /\ calls[k].heldAtStart # 0
         /\ calls[k].object = calls[k].heldAtStart
  /\ \A name \in LazyNames(config.loader) :
       /\ Cardinality(entriesOf(lazyCache, name)) <= 1
       /\ (\E k \in 1..Len(calls) : calls[k].name = name /\ succeeded(k)) =>
            Cardinality(entriesOf(lazyCache, name)) = 1

\* two first-time calls for the same name were in flight together and both
\* loaded it; a third call, started after the record was removed from the
\* store, was served an entry one of them had set
C31_Witness ==
  /\ Len(calls) = 3
  /\ calls[1].name = calls[2].name /\ calls[2].name = calls[3].name
  /\ calls[1].outcome = "loaded" /\ calls[2].outcome = "loaded"
  /\ calls[1].heldAtStart = 0 /\ calls[2].heldAtStart = 0
  /\ ~calls[3].recordAtStart
  /\ calls[3].outcome = "cached"
  /\ calls[3].object \in {1, 2}
  /\ Cardinality(lazyCache) = 1

\* ------------------------------------------------------------------ C34
\* call k ends in this step with NotFoundException or Error
failsNow(k) ==
  /\ calls[k].at # "done"
  /\ calls'[k].at = "done"
  /\ calls'[k].outcome \in {"NotFoundException", "Error"}

\* C34: a step in which a getStrategy / getRiskStrategy call fails (no record,
\* class not importable, instance without execute) leaves the cache of the
\* loader as it was, and every entry of the cache was set by a call whose
\* instance passed the execute-function check.
C34_FailureLeavesCache ==
  [][/\ \A k \in 1..Len(calls) :
          failsNow(k) => loadedStrategies' = loadedStrategies /\ loadedRisks' = loadedRisks
     /\ \A e \in lazyCache' :
          /\ e.object \in 1..Len(calls')
          /\ calls'[e.object].name = e.name
          /\ calls'[e.object].class = "valid"
          /\ calls'[e.object].outcome = "loaded"
    ]_vars

\* after a load that set an entry, a call for the class without execute and a
\* call for the file that cannot be imported both ended in Error, and the
\* cache holds the one entry of the first call
C34_Witness ==
  /\ Len(calls) = 3
  /\ calls[1].outcome = "loaded"
  /\ calls[2].class = "noExecute" /\ calls[2].outcome = "Error"
  /\ calls[3].class = "importFails" /\ calls[3].outcome = "Error"
  /\ lazyCache = {[name |-> calls[1].name, object |-> 1]}

\* ---------------------------------------------- an eager loader, step by step
\* StrategyLoader (strategy-loader.ts) and RiskLoader (part_002) start
\* loadStrategiesFromDB / loadRiskRulesFromDB in their constructor without
\* awaiting it: the constructor returns with the store query in flight, and
\* the load goes on at each await (the query, then one import per record)
\* while getStrategy / getRiskRule can be called in between.  The store does
\* not change here, so the loop walks storeRecords itself.
MaxStored == 3

\* records a store can hold: two classes that load, a file that cannot be
\* imported, a module that lacks the class named
EagerRecords(loader) ==
  IF loader = "StrategyLoader"
  THEN {[name |-> "rsi_macd", class |-> "valid"],
        [name |-> "macd_cross", class |-> "valid"],
        [name |-> "broken_strategy", class |-> "importFails"],
        [name |-> "hollow_strategy", class |-> "classMissing"]}
  ELSE {[name |-> "fixed_percent", class |-> "valid"],
        [name |-> "fixed_ratio", class |-> "valid"],
        [name |-> "broken_rule", class |-> "importFails"],
        [name |-> "hollow_rule", class |-> "classMissing"]}

EagerNames(loader) ==
  {r.name : r \in EagerRecords(loader)}
    \cup {IF loader = "StrategyLoader" THEN "missing_strategy" ELSE "missing_rule"}

\* the stores: up to MaxStored different records in any order
EagerStores(loader) ==
  {rs \in UNION {[1..n -> EagerRecords(loader)] : n \in 0..MaxStored} :
     \A j, k \in 1..Len(rs) : j # k => rs[j] # rs[k]}

\* the names of the first n records whose class loads
RECURSIVE registrable(_, _)
registrable(rs, n) ==
  IF n = 0 THEN {}
  ELSE registrable(rs, n - 1) \cup (IF rs[n].class = "valid" THEN {rs[n].name} ELSE {})

\* lines 47-70 / 34-52: one pass of the loop body; an import error is caught
\* and a missing class skipped with continue, else the instance is registered
registryAfter(reg, record) ==
  IF record.class = "valid" THEN reg \cup {record.name} ELSE reg

\* a record that failed stops the loop at the failure
nextRecord_stopAtFailure(rs, k) ==
  IF k < Len(rs) /\ rs[k].class = "valid" THEN [pc |-> "import", i |-> k + 1]
  ELSE [pc |-> "loaded", i |-> k]

\* line 46 / 33: the for-of goes on to the next record whatever became of
\* this one
nextRecord(rs, k) ==
  IF k < Len(rs) THEN [pc |-> "import", i |-> k + 1] ELSE [pc |-> "loaded", i |-> k]

EagerInit ==
  /\ config \in [loader : LazyLoaders, findFails : BOOLEAN]
  /\ storeRecords \in EagerStores(config.loader)
  /\ pc = "find"
  /\ i = 0
  /\ strategies = {}
  /\ calls = <<>>
  /\ loadedStrategies = {}
  /\ loadedRisks = {}
  /\ signal = "none"
  /\ riskResult = <<>>
  /\ balance = 0
  /\ trades = <<>>
  /\ position = <<>>
  /\ result = <<>>
  /\ stored = <<>>
  /\ returned = <<>>
  /\ strategyCalls = <<>>
  /\ riskCalls = <<>>
  /\ other = <<>>
  /\ memo = {}

eagerFrame == <<config, signal, riskResult, balance, trades, position, result, stored,
                returned, strategyCalls, riskCalls, other, memo, loadedStrategies,
                loadedRisks, storeRecords>>

\* lines 44 / 31 and the outer catch: the query resolves with the records, or
\* rejects and the error is logged
FindResolves ==
  /\ pc = "find"
  /\ IF config.findFails \/ storeRecords = <<>>
     THEN pc' = "loaded" /\ i' = 0
     ELSE pc' = "import" /\ i' = 1
  /\ UNCHANGED <<eagerFrame, strategies, calls>>

\* lines 49-70 / 35-52: the import of record i resolves or rejects
ImportSettles ==
  /\ pc = "import"
  /\ strategies' = registryAfter(strategies, storeRecords[i])
  /\ pc' = nextRecord(storeRecords, i).pc
  /\ i' = nextRecord(storeRecords, i).i
  /\ UNCHANGED <<eagerFrame, calls>>

\* lines 96-102 / 66-72: a lookup, at any moment after construction; the last
\* one is kept
GetRegistered ==
  /\ \E name \in EagerNames(config.loader) :
       calls' = <<[name |-> name,
                   during |-> pc,
                   outcome |-> IF name \in strategies THEN "returned" ELSE "Error"]>>
  /\ UNCHANGED <<eagerFrame, pc, i, strategies>>

EagerNext == FindResolves \/ ImportSettles \/ GetRegistered

EagerSpec == EagerInit /\ [][EagerNext]_vars

\* the names stored with a class that loads
storedLoadable == registrable(storeRecords, Len(storeRecords))

\* ------------------------------------------------------------------ C32
\* C32: a lookup of a name that is stored with a loadable class never ends in
\* the not-found Error, not even when it is made before the load started by
\* the constructor has finished.
C32_EagerLookupFindsStored ==
  \A k \in 1..Len(calls) :
    calls[k].name \in storedLoadable => calls[k].outcome = "returned"

\* ------------------------------------------------------------------ C33
\* C33: the load registers exactly the stored records whose class loads,
\* those before and those after a record that fails included; while it runs
\* the registry holds the loadable ones among the records passed; a store
\* query that fails leaves the registry empty; and the load always comes to
\* its end, raising nothing.
C33_EagerFailureIsolation ==
  /\ strategies \subseteq storedLoadable
  /\ pc \in {"find", "import", "loaded"}
  /\ (pc = "import") => strategies = registrable(storeRecords, i - 1)
  /\ (pc = "loaded" /\ ~config.findFails) => strategies = storedLoadable
  /\ config.findFails => strategies = {}

\* a store of a loadable record, a failing one and another loadable one, in
\* that order: the load has finished with both loadable ones registered
C33_Witness ==
  /\ ~config.findFails
  /\ pc = "loaded"
  /\ Len(storeRecords) = 3
  /\ storeRecords[1].class = "valid"
  /\ storeRecords[2].class = "importFails"
  /\ storeRecords[3].class = "valid"
  /\ Cardinality(strategies) = 2

\* ------------------------------------------------------------------ C35
\* the balance the last CLOSE of the ledger recorded, the initial balance if
\* there is none
RECURSIVE balanceAtLastClose(_, _, _)
balanceAtLastClose(tr, n, initial) ==
  IF n = 0 THEN initial
  ELSE IF tr[n].action = "CLOSE" THEN tr[n].balance
  ELSE balanceAtLastClose(tr, n - 1, initial)

\* between the change of the balance and the push of the CLOSE trade
closing == {"update", "pushClose", "forceUpdate", "forcePush"}

\* C35: the running balance changes only in the close of a position (by
\* trigger or forced): the call of the strategy, the risk call, the opening
\* of a position, the push of its OPEN trade and a close check that does not
\* fire leave it as it is, so outside a close it is the balance the last
\* CLOSE recorded, or the initial balance before the first one.
C35_BalanceChangesOnlyAtClose ==
  [][/\ (balance' # balance /\ pc # "idle") =>
          (pc \in {"close", "forceClose"} /\ position # <<>>)
     /\ pc \in {"loop", "strategy", "decide", "open", "pushOpen", "check"} =>
          balance' = balance
     /\ pc' \notin ({"idle"} \cup closing) =>
          balance' = balanceAtLastClose(trades', Len(trades'), config.initialBalance)
    ]_vars

\* a position is open at the second data point after a round trip that
\* changed the balance: the balance is still the one its CLOSE recorded
C35_Witness ==
  /\ pc = "check"
  /\ i = 2
  /\ Len(trades) = 3
  /\ trades[3].action = "OPEN"
  /\ balance = trades[2].balance
  /\ balance # config.initialBalance
  /\ ~mustClose

\* ------------------------------------------------------------------ C36
\* C36: in every returned result finalBalance is the initial balance plus the
\* net (realized PnL minus fee) of all closed positions; every CLOSE trade
\* records the running balance right after its close, so finalBalance is the
\* balance of the last CLOSE trade of a non-empty ledger; and with an empty
\* ledger finalBalance is the initial balance and totalReturn is 0.
C36_BalanceConservation ==
  returned # <<>> =>
    LET r == returned[1] IN
    /\ r.finalBalance =
         r.initialBalance + netOfRoundTrips(r.trades, Len(r.trades) \div 2, config.fees)
    /\ \A n \in 1..Len(r.trades) :
         r.trades[n].action = "CLOSE" =>
           r.trades[n].balance =
             r.initialBalance + netOfRoundTrips(r.trades, n \div 2, config.fees)
    /\ r.trades # <<>> => r.finalBalance = r.trades[Len(r.trades)].balance
    /\ r.trades = <<>> =>
         /\ r.finalBalance = r.initialBalance
         /\ RatIs(r.totalReturn, 0)

\* ------------------------------------------------------------------ C37
\* C37: no position is opened at a data point at which a position was closed:
\* the risk call and the OPEN of a data point come before any CLOSE of that
\* point, the OPEN that follows a CLOSE in the ledger belongs to a later data
\* point, and no data point has two OPEN trades or two risk calls.  (The
\* timestamps of a run's data points differ, so they tell the points apart.)
C37_NoReentryAtClosingPoint ==
  /\ pc \in {"open", "pushOpen"} =>
       \A n \in 1..Len(trades) : trades[n].timestamp # candle.timestamp
  /\ \A n \in 2..Len(trades) :
       trades[n].action = "OPEN" =>
         /\ trades[n - 1].action = "CLOSE"
         /\ trades[n].timestamp # trades[n - 1].timestamp
         /\ \A m \in 1..(n - 1) :
              trades[m].action = "OPEN" => trades[m].timestamp # trades[n].timestamp
  /\ timeOrdered =>
       \A n \in 2..Len(trades) :
         trades[n].action = "OPEN" => trades[n].timestamp > trades[n - 1].timestamp
  /\ \A k \in 2..Len(riskCalls) : riskCalls[k - 1].index < riskCalls[k].index

\* the position opened at the first data point was closed by the trigger at
\* the second, where the strategy had signalled short: the iteration is over
\* and nothing was opened
C37_Witness ==
  /\ pc = "loop"
  /\ i = 2
  /\ position = <<>>
  /\ Len(trades) = 2
  /\ trades[1].timestamp # trades[2].timestamp
  /\ trades[2].timestamp = candle.timestamp
  /\ strategyCalls[2].signal = "short"
  /\ Len(riskCalls) = 1

\* ------------------------------------------------------------------ C38
\* C38: a run creates at most one document, the result it computed, and only
\* after all data points were processed and an open position was liquidated;
\* a result is returned only once it is stored, and it is the stored one; a
\* run whose save failed has stored and returned nothing.
C38_PersistOnceBeforeReturn ==
  /\ Len(stored) <= 1
  /\ stored # <<>> =>
       /\ pc \in {"return", "done"}
       /\ result # <<>> /\ stored[1] = result[1]
       /\ i = Len(config.data)
       /\ position # <<>> => position[1].status = "CLOSED"
       /\ stored[1].trades = trades
  /\ returned # <<>> => stored = returned
  /\ pc = "done" => returned # <<>>
  /\ pc = "failed" => stored = <<>> /\ returned = <<>>

\* a run that liquidated its position after the last data point, stored the
\* result and returned it
C38_Witness ==
  /\ pc = "done"
  /\ Len(stored) = 1
  /\ returned = stored
  /\ Len(stored[1].trades) = 2
  /\ position # <<>>
  /\ position[1].entryTime # position[1].exitTime[1]

====
